---- MODULE Spec2Model ----
(***************************************************************************)
(* Task manager: the JSON task store (TaskStorage) with its atomic write   *)
(* and best-effort backup, and the Task record conversions it relies on.   *)
(*                                                                         *)
(* The file system is three named files next to each other: the target     *)
(* file, <name>.tmp and <name>.backup.  Every I/O call of the store is one *)
(* step; each step that touches the disk can fail (an OSError) and a       *)
(* running caller can be killed between any two steps.                     *)
(***************************************************************************)
EXTENDS Naturals, Sequences, FiniteSets, TLC

VARIABLES
    target,     \* content of the target file
    tmp,        \* content of <name>.tmp
    backup,     \* content of <name>.backup
    pc,         \* per caller: the step of the running operation
    inst,       \* per caller: whether it holds a constructed TaskStorage
    op,         \* per caller: the running / last operation and its arguments
    tasks,      \* per caller: the list load() returned inside the operation
    data,       \* per caller: the list of dicts handed to _atomic_write
    exc,        \* per caller: the exception travelling through the except block
    src,        \* per caller: the content _create_backup's copy reads
    res,        \* per caller: how the last operation ended
    pre,        \* per caller: the three files as they were when the operation began
    fd,         \* per caller: where the file behind its open descriptor, or behind the
                \* stat result it holds, is now; "rewritten" when a json.dump landed
                \* in the file since the caller read its first block
    held,       \* per caller: the tasks it got from get_all and has changed since
    faults,     \* number of operations so far that met an I/O fault or were killed
    issued,     \* number of tasks that reached the store with an id uuid4() made
    dir         \* whether the directory the three files live in exists

vars == <<target, tmp, backup, pc, inst, op, tasks, data, exc, src, res, pre, fd, held, faults,
          issued, dir>>

(***************************************************************************)
(* Bounds                                                                  *)
(***************************************************************************)
\* number of distinct moments at which load() can draw fresh uuid4 values
NumGens == 2
\* number of operations in one run that meet I/O faults or are killed
MaxFaults == 1

(***************************************************************************)
(* Values                                                                  *)
(***************************************************************************)
\* Python None / JSON null
None == "<None>"
\* a key that a JSON object does not have
Absent == "<absent>"

Callers == {"w1", "w2"}

PriorityEnum == {"Priority.HIGH", "Priority.MEDIUM", "Priority.LOW"}
StatusEnum == {"Status.ACTIVE", "Status.COMPLETED"}

\* Enum.value
EnumValue(e) ==
    CASE e = "Priority.HIGH" -> "high"
      [] e = "Priority.MEDIUM" -> "medium"
      [] e = "Priority.LOW" -> "low"
      [] e = "Status.ACTIVE" -> "active"
      [] e = "Status.COMPLETED" -> "completed"
      [] OTHER -> e

\* str.lower on the strings of the model
Lower(s) ==
    CASE s = "HIGH" -> "high"
      [] s = "High" -> "high"
      [] s = "LOW" -> "low"
      [] s = "Medium" -> "medium"
      [] s = "ACTIVE" -> "active"
      [] s = "Completed" -> "completed"
      [] OTHER -> s

\* str.strip on the strings of the model
Strip(s) ==
    CASE s = " Y " -> "Y"
      [] s = "X " -> "X"
      [] s = " Z" -> "Z"
      [] s = "  " -> ""
      [] OTHER -> s

\* isinstance(x, str) for a priority or status field
IsStr(x) == x /= None /\ x \notin PriorityEnum /\ x \notin StatusEnum

\* the uuid4 drawn for the i-th record of a load in generation g
Uuid(g, i) == "uuid-" \o ToString(g) \o "-" \o ToString(i)
\* datetime.now().isoformat() in generation g
Now(g) == "now-" \o ToString(g)

NoTask ==
    [id |-> None, title |-> None, description |-> None, priority |-> None,
     due_date |-> None, status |-> None, created_at |-> None, completed_at |-> None]

(***************************************************************************)
(* models.py: Task                                                         *)
(***************************************************************************)
\* Task.__post_init__ on the fields t; uuid and now are the values uuid4() and
\* datetime.now() would return.  exc is "" or the exception raised.
PostInit(t, uuid, now) ==
    LET id1 == IF t.id = None THEN uuid ELSE t.id
        created1 == IF t.created_at = None THEN now ELSE t.created_at
        title1 == IF t.title /= None THEN Strip(t.title) ELSE t.title
        badPrio == IsStr(t.priority) /\ Lower(t.priority) \notin {"high", "medium", "low"}
        prio1 == IF ~IsStr(t.priority) THEN t.priority
                 ELSE CASE Lower(t.priority) = "high" -> "Priority.HIGH"
                        [] Lower(t.priority) = "medium" -> "Priority.MEDIUM"
                        [] Lower(t.priority) = "low" -> "Priority.LOW"
                        [] OTHER -> t.priority
        badStatus == IsStr(t.status) /\ Lower(t.status) \notin {"active", "completed"}
        status1 == IF ~IsStr(t.status) THEN t.status
                   ELSE CASE Lower(t.status) = "active" -> "Status.ACTIVE"
                          [] Lower(t.status) = "completed" -> "Status.COMPLETED"
                          [] OTHER -> t.status
    IN  [exc |-> IF badPrio \/ badStatus THEN "ValueError" ELSE "",
         task |-> [t EXCEPT !.id = id1, !.created_at = created1, !.title = title1,
                            !.priority = prio1, !.status = status1]]

\* Task.mark_complete
mark_complete(t, now) == [t EXCEPT !.status = "Status.COMPLETED", !.completed_at = now]

\* a mark_incomplete that leaves the completion timestamp in place
mark_incomplete_KeepsTimestamp(t) == [t EXCEPT !.status = "Status.ACTIVE"]

\* Task.mark_incomplete
mark_incomplete(t) == [t EXCEPT !.status = "Status.ACTIVE", !.completed_at = None]

\* a to_dict that forgets the completion timestamp
to_dict_DropsCompletedAt(t) ==
    [id |-> t.id, title |-> t.title, description |-> t.description,
     priority |-> IF t.priority \in PriorityEnum THEN EnumValue(t.priority) ELSE t.priority,
     due_date |-> t.due_date,
     status |-> IF t.status \in StatusEnum THEN EnumValue(t.status) ELSE t.status,
     created_at |-> t.created_at, completed_at |-> None]

\* Task.to_dict
to_dict(t) ==
    [id |-> t.id, title |-> t.title, description |-> t.description,
     priority |-> IF t.priority \in PriorityEnum THEN EnumValue(t.priority) ELSE t.priority,
     due_date |-> t.due_date,
     status |-> IF t.status \in StatusEnum THEN EnumValue(t.status) ELSE t.status,
     created_at |-> t.created_at, completed_at |-> t.completed_at]

\* a from_dict for which the title is optional
from_dict_TitleOptional(d, uuid, now) ==
    PostInit([id |-> IF d.id = Absent THEN None ELSE d.id,
              title |-> IF d.title = Absent THEN "" ELSE d.title,
              description |-> IF d.description = Absent THEN None ELSE d.description,
              priority |-> IF d.priority = Absent THEN "medium" ELSE d.priority,
              due_date |-> IF d.due_date = Absent THEN None ELSE d.due_date,
              status |-> IF d.status = Absent THEN "active" ELSE d.status,
              created_at |-> IF d.created_at = Absent THEN None ELSE d.created_at,
              completed_at |-> IF d.completed_at = Absent THEN None ELSE d.completed_at],
             uuid, now)

\* dict.get(key, default)
Get(v, default) == IF v = Absent THEN default ELSE v

\* Task.from_dict
from_dict(d, uuid, now) ==
    IF d.title = Absent
    THEN [exc |-> "KeyError", task |-> NoTask]
    ELSE PostInit([id |-> Get(d.id, None), title |-> d.title,
                   description |-> Get(d.description, None),
                   priority |-> Get(d.priority, "medium"),
                   due_date |-> Get(d.due_date, None),
                   status |-> Get(d.status, "active"),
                   created_at |-> Get(d.created_at, None),
                   completed_at |-> Get(d.completed_at, None)], uuid, now)

\* Task(...) as the callers and tests construct one
NewTask(id, title, description, priority, due_date, created_at) ==
    PostInit([id |-> id, title |-> title, description |-> description,
              priority |-> priority, due_date |-> due_date, status |-> "Status.ACTIVE",
              created_at |-> created_at, completed_at |-> None], "uuid-0-0", "now-0").task

(***************************************************************************)
(* Files                                                                   *)
(***************************************************************************)
\* a name with no file behind it
NoFile == [kind |-> "absent", doc |-> <<>>]
\* a file cut short: a proper prefix of what was being written, down to the
\* zero bytes of a file just opened for writing; never valid JSON
Truncated == [kind |-> "truncated", doc |-> <<>>]
\* json.dump(d, f, indent=2): the complete serialization of the list of dicts d
json_dump(d) == [kind |-> "json", doc |-> d]
\* valid JSON whose top level is not a list, such as {"not": "a list"}
NonList == [kind |-> "object", doc |-> <<>>]
\* text that is not JSON, such as {corrupted
Garbage == [kind |-> "garbage", doc |-> <<>>]

Exists(f) == f.kind /= "absent"

(***************************************************************************)
(* Results of an operation                                                 *)
(***************************************************************************)
\* status: ok (returned), error (raised) or killed; exc and msg: the exception;
\* at: the step that failed; note: what happened to the backup copy or the
\* clean-up that the caller is not told; val: the tasks returned
NoResult == [status |-> "none", exc |-> "", msg |-> "", at |-> "", note |-> "", val |-> <<>>]
Returned(val, note) == [NoResult EXCEPT !.status = "ok", !.val = val, !.note = note]
Raised(e, msg, at) == [NoResult EXCEPT !.status = "error", !.exc = e, !.msg = msg, !.at = at]
RaisedNote(e, msg, at, note) == [Raised(e, msg, at) EXCEPT !.note = note]
Killed(at) == [NoResult EXCEPT !.status = "killed", !.at = at]

NoOp == [name |-> "", arg |-> <<>>, id |-> ""]

\* the error kinds of the store, as the exceptions that carry them
IsIOError(r) == r.status = "error" /\ r.exc = "StorageError" /\ r.msg = "Failed to load tasks"
IsParseError(r) == r.status = "error" /\ r.exc = "StorageError" /\ r.msg = "invalid JSON format"
IsSchemaError(r) == r.status = "error" /\ r.exc = "StorageError" /\ r.msg = "Invalid JSON schema"
IsMissingFieldError(r) == r.status = "error" /\ r.exc = "KeyError"
IsNotFoundError(r) == r.status = "error" /\ r.exc = "TaskNotFoundError"
IsDuplicateError(r) == r.status = "error" /\ r.exc = "StorageError" /\ r.msg = "already exists"
IsSaveError(r) == r.status = "error" /\ r.exc = "StorageError" /\ r.msg = "Failed to save tasks"

(***************************************************************************)
(* storage.py: TaskStorage, the pure parts                                 *)
(***************************************************************************)
\* [Task.from_dict(d) for d in data], from position i on; stops at the first
\* record that raises
RECURSIVE FromDicts(_, _, _)
FromDicts(doc, g, i) ==
    IF i > Len(doc) THEN [exc |-> "", tasks |-> <<>>]
    ELSE LET r == from_dict(doc[i], Uuid(g, i), Now(g))
         IN  IF r.exc /= "" THEN [exc |-> r.exc, tasks |-> <<>>]
             ELSE LET rest == FromDicts(doc, g, i + 1)
                  IN  IF rest.exc /= "" THEN rest
                      ELSE [exc |-> "", tasks |-> <<r.task>> \o rest.tasks]

\* [task.to_dict() for task in tasks]
ToDicts(ts) == [i \in 1..Len(ts) |-> to_dict(ts[i])]

\* a load without _validate_schema: whatever json.loads accepted is iterated,
\* and iterating over the keys of an object hands strings to from_dict
loadNoSchemaCheck(f, readFault, g) ==
    IF readFault
    THEN RaisedNote("StorageError", "Failed to load tasks", "load", "read fault")
    ELSE IF ~Exists(f)
    THEN Raised("StorageError", "Failed to load tasks", "load")
    ELSE IF f.kind \in {"truncated", "garbage"}
    THEN Raised("StorageError", "invalid JSON format", "load")
    ELSE IF f.kind = "object"
    THEN Raised("KeyError", "from_dict", "load")
    ELSE LET r == FromDicts(f.doc, g, 1)
         IN  IF r.exc /= "" THEN Raised(r.exc, "from_dict", "load")
             ELSE Returned(r.tasks, "")

\* a load that turns to the backup file when the target holds no valid JSON
load_FallsBackToBackup(f, readFault, g) ==
    IF readFault
    THEN RaisedNote("StorageError", "Failed to load tasks", "load", "read fault")
    ELSE IF ~Exists(f)
    THEN Raised("StorageError", "Failed to load tasks", "load")
    ELSE IF f.kind \in {"truncated", "garbage"}
    THEN IF backup.kind = "json" /\ FromDicts(backup.doc, g, 1).exc = ""
         THEN Returned(FromDicts(backup.doc, g, 1).tasks, "")
         ELSE Raised("StorageError", "invalid JSON format", "load")
    ELSE IF f.kind = "object"
    THEN Raised("StorageError", "Invalid JSON schema", "load")
    ELSE LET r == FromDicts(f.doc, g, 1)
         IN  IF r.exc /= "" THEN Raised(r.exc, "from_dict", "load")
             ELSE Returned(r.tasks, "")

\* TaskStorage.load on file content f; readFault: read_text raises OSError;
\* g: the moment of the load, which decides the uuids and timestamps drawn
load(f, readFault, g) ==
    IF readFault
    THEN RaisedNote("StorageError", "Failed to load tasks", "load", "read fault")
    ELSE IF ~Exists(f)
    THEN Raised("StorageError", "Failed to load tasks", "load")
    ELSE IF f.kind \in {"truncated", "garbage"}
    THEN Raised("StorageError", "invalid JSON format", "load")
    ELSE IF f.kind = "object"
    THEN Raised("StorageError", "Invalid JSON schema", "load")
    ELSE LET r == FromDicts(f.doc, g, 1)
         IN  IF r.exc /= "" THEN Raised(r.exc, "from_dict", "load")
             ELSE Returned(r.tasks, "")

\* the moments that tell the loads of f apart: from_dict draws uuid4() and
\* reads the clock only for a record that has no id or no created_at
LoadMoments(f) ==
    IF f.kind = "json" /\ \E i \in 1..Len(f.doc) :
                              f.doc[i].id \in {Absent, None} \/ f.doc[i].created_at \in {Absent, None}
    THEN 1..NumGens ELSE {1}

\* a duplicate check that looks at the first task only
HasIdFirstOnly(ts, id) == Len(ts) > 0 /\ ts[1].id = id

\* any(t.id == task.id for t in tasks)
HasId(ts, id) == \E i \in 1..Len(ts) : ts[i].id = id

\* an add that inserts at the front
AddTaskFront(ts, t) == <<t>> \o ts

\* tasks.append(task)
AddTask(ts, t) == Append(ts, t)

\* a remove that drops the first task whatever its id
RemoveFirst(ts, id) == IF Len(ts) > 0 THEN Tail(ts) ELSE ts

\* a remove that deletes the first task with the id and keeps later ones
RemoveFirstMatch(ts, id) ==
    IF \E i \in 1..Len(ts) : ts[i].id = id
    THEN LET k == CHOOSE i \in 1..Len(ts) :
                      ts[i].id = id /\ \A j \in 1..(i - 1) : ts[j].id /= id
         IN  SubSeq(ts, 1, k - 1) \o SubSeq(ts, k + 1, Len(ts))
    ELSE ts

\* [t for t in tasks if t.id != task_id]
RemoveTask(ts, id) == SelectSeq(ts, LAMBDA t : t.id /= id)

\* a scan that keeps the last task with this id instead of stopping at the first
LastIndex(ts, id) ==
    IF HasId(ts, id) THEN CHOOSE i \in 1..Len(ts) :
                              ts[i].id = id /\ \A j \in (i + 1)..Len(ts) : ts[j].id /= id
    ELSE 0

\* the index of the first task with this id, 0 when there is none
FirstIndex(ts, id) ==
    IF HasId(ts, id) THEN CHOOSE i \in 1..Len(ts) :
                              ts[i].id = id /\ \A j \in 1..(i - 1) : ts[j].id /= id
    ELSE 0

\* an update that replaces every task with the id
UpdateAllMatches(ts, t) == [i \in 1..Len(ts) |-> IF ts[i].id = t.id THEN t ELSE ts[i]]

\* the loop of update: tasks[i] = task at the first match
UpdateTask(ts, t) == [ts EXCEPT ![FirstIndex(ts, t.id)] = t]

\* [Task.from_dict(task.to_dict()) for task in tasks]
Copies(ts, g) == FromDicts(ToDicts(ts), g, 1).tasks

(***************************************************************************)
(* Inputs                                                                  *)
(***************************************************************************)
T1 == NewTask("a", "X", None, "HIGH", None, "t0")
T2 == NewTask("b", " Y ", "desc", "Priority.LOW", "2026-12-31", "t1")
T3 == mark_complete(NewTask("a", "Z", None, "medium", None, "t2"), "t3")
\* a task whose title and priority were assigned after it was constructed:
\* t.title = " Y "; t.priority = "LOW".  validate() accepts it
T4 == [T2 EXCEPT !.title = " Y ", !.priority = "LOW"]

\* the tasks callers pass to add, update and save
InputTasks == {T1, T2, T3}
\* the ids callers pass to get_by_id and remove
InputIds == {"a", "b"}
\* the lists callers pass to save: tasks as Task(...) and mark_complete leave
\* them, and one list with a task whose fields were assigned afterwards
InputLists == {<<>>, <<T1>>, <<T1, T3>>, <<T4, T1>>}

\* a record as another program or an editor may have written it: the title
\* padded, the priority in capitals, no status key
DictRaw == [to_dict(T2) EXCEPT !.title = " Y ", !.priority = "HIGH", !.status = Absent]

\* what the path holds when the first store is constructed on it
InitialFiles == {NoFile, json_dump(<<DictRaw>>)}
\* what another program or an editor may have left at the path instead
\* a record without the title key
DictNoTitle == [to_dict(T1) EXCEPT !.title = Absent]
\* a record without the id and created_at keys
DictNoId == [to_dict(T2) EXCEPT !.id = Absent, !.created_at = Absent]
ForeignFiles == {NonList, Garbage, json_dump(<<DictRaw, DictNoTitle>>)}

Files == [target |-> target, tmp |-> tmp, backup |-> backup]

(***************************************************************************)
(* storage.py: TaskStorage, the operations step by step                    *)
(***************************************************************************)
\* an I/O call of caller p fails, or p is killed: the environment's doing.
\* A second fault inside the except block belongs to the same operation.
Fault(p) ==
    IF exc[p] /= "" THEN UNCHANGED faults
    ELSE faults < MaxFaults /\ faults' = faults + 1
NoFault == UNCHANGED faults
\* whether read_text may raise in this step
ReadFaults == IF faults < MaxFaults THEN BOOLEAN ELSE {FALSE}
Counted(readFault) == faults' = IF readFault THEN faults + 1 ELSE faults

\* an operation of caller p begins
Enter(p, name, arg, id) ==
    /\ pc[p] = "idle"
    /\ op' = [op EXCEPT ![p] = [name |-> name, arg |-> arg, id |-> id]]
    /\ pre' = [pre EXCEPT ![p] = Files]
    /\ held' = [held EXCEPT ![p] = IF name \in {"get_all", "get_by_id"} THEN held[p] ELSE <<>>]
    /\ fd' = [fd EXCEPT ![p] = ""]

\* load: read_text reads the target block by block until a read returns
\* nothing.  When another caller's json.dump landed in that very file after
\* the first block was read, the blocks that follow come from the new bytes
\* and the text is no JSON
ReadOf(p) == {target} \cup (IF fd[p] = "rewritten" THEN {Garbage} ELSE {})

\* an operation that may make a task without an id begins
BeginMaking(p, name, arg, id) == Enter(p, name, arg, id) /\ UNCHANGED dir

\* an operation that makes no task begins
Begin(p, name, arg, id) == BeginMaking(p, name, arg, id) /\ UNCHANGED issued

Finish(p, r) ==
    /\ pc' = [pc EXCEPT ![p] = "idle"]
    /\ res' = [res EXCEPT ![p] = r]
    /\ exc' = [exc EXCEPT ![p] = ""]
    /\ data' = [data EXCEPT ![p] = <<>>]
    /\ src' = [src EXCEPT ![p] = NoFile]

\* the operation ends in its first step, having written nothing
EndAtOnce(p, r, ts) ==
    /\ Finish(p, r)
    /\ tasks' = [tasks EXCEPT ![p] = ts]
    /\ UNCHANGED <<target, tmp, backup, inst>>

\* the operation goes on to save(ts)
GoSave(p, loaded, ts) ==
    /\ pc' = [pc EXCEPT ![p] = "tmp_open"]
    /\ tasks' = [tasks EXCEPT ![p] = loaded]
    /\ data' = [data EXCEPT ![p] = ToDicts(ts)]
    /\ UNCHANGED <<target, tmp, backup, inst, exc, src, res>>

\* TaskStorage.__init__: parent.mkdir(parents=True, exist_ok=True) makes the
\* directory when there is none; an OSError leaves __init__
Construct(p) ==
    /\ Enter(p, "init", <<>>, "")
    /\ UNCHANGED <<target, tmp, backup, tasks, issued>>
    /\ inst' = [inst EXCEPT ![p] = FALSE]
    /\ \/ /\ dir' = TRUE
          /\ pc' = [pc EXCEPT ![p] = "init_exists"]
          /\ UNCHANGED <<exc, res, data, src>>
          /\ NoFault
       \/ /\ Finish(p, Raised("OSError", "mkdir", "init_mkdir"))
          /\ UNCHANGED dir
          /\ Fault(p)

\* an __init__ that writes '[]' without looking whether the file exists
ConstructOverwrites(p) ==
    /\ pc[p] = "init_exists"
    /\ UNCHANGED <<target, tmp, backup, op, tasks, pre, fd, held, issued, dir>>
    /\ pc' = [pc EXCEPT ![p] = "init_open"]
    /\ UNCHANGED <<inst, exc, res, data, src>>
    /\ NoFault

\* TaskStorage.__init__: self._file_path.exists(); with the file there
\* __init__ returns; the stat can raise an OSError other than "no such file"
ConstructExists(p) ==
    /\ pc[p] = "init_exists"
    /\ UNCHANGED <<target, tmp, backup, op, tasks, pre, fd, held, issued, dir>>
    /\ \/ /\ Exists(target)
          /\ Finish(p, Returned(<<>>, ""))
          /\ inst' = [inst EXCEPT ![p] = TRUE]
          /\ NoFault
       \/ /\ ~Exists(target)
          /\ pc' = [pc EXCEPT ![p] = "init_open"]
          /\ UNCHANGED <<inst, exc, res, data, src>>
          /\ NoFault
       \/ /\ Finish(p, Raised("OSError", "stat", "init_exists"))
          /\ UNCHANGED inst
          /\ Fault(p)

\* TaskStorage.__init__: write_text opens the target for writing, which
\* creates it empty
ConstructOpen(p) ==
    /\ pc[p] = "init_open"
    /\ UNCHANGED <<tmp, backup, op, tasks, pre, fd, held, issued, dir>>
    /\ \/ /\ target' = Truncated
          /\ pc' = [pc EXCEPT ![p] = "init_write"]
          /\ UNCHANGED <<inst, exc, res, data, src>>
          /\ NoFault
       \/ /\ Finish(p, Raised("OSError", "open", "init_open"))
          /\ UNCHANGED <<target, inst>>
          /\ Fault(p)

\* an __init__ that writes '{}' as the empty store
ConstructWriteObject(p) ==
    /\ pc[p] = "init_write"
    /\ UNCHANGED <<tmp, backup, op, tasks, pre, fd, held, issued, dir>>
    /\ \/ /\ target' = NonList
          /\ Finish(p, Returned(<<>>, ""))
          /\ inst' = [inst EXCEPT ![p] = TRUE]
          /\ NoFault
       \/ /\ Finish(p, Raised("OSError", "write", "init_write"))
          /\ UNCHANGED <<target, inst>>
          /\ Fault(p)

\* TaskStorage.__init__: write_text('[]') writes and closes.  A write that
\* fails is tried once more by the close, which flushes the buffer again: the
\* OSError leaves __init__ with nothing written, or with every byte written
\* when the second try or only the close itself was what failed
ConstructWrite(p) ==
    /\ pc[p] = "init_write"
    /\ UNCHANGED <<tmp, backup, op, tasks, pre, fd, held, issued, dir>>
    /\ \/ /\ target' = json_dump(<<>>)
          /\ Finish(p, Returned(<<>>, ""))
          /\ inst' = [inst EXCEPT ![p] = TRUE]
          /\ NoFault
       \/ /\ target' \in {target, json_dump(<<>>)}
          /\ Finish(p, Raised("OSError", "write", "init_write"))
          /\ UNCHANGED inst
          /\ Fault(p)

\* a load that replaces a file it cannot parse by the empty list
Load_ResetsBadFile(p) ==
    /\ inst[p]
    /\ Begin(p, "load", <<>>, "")
    /\ \E f \in ReadOf(p) : \E readFault \in ReadFaults, g \in LoadMoments(f) :
          LET r == load(f, readFault, g)
          IN  /\ Finish(p, r)
              /\ tasks' = [tasks EXCEPT ![p] = r.val]
              /\ target' = IF r.status = "error" /\ ~readFault THEN json_dump(<<>>) ELSE target
              /\ UNCHANGED <<tmp, backup, inst>>
              /\ Counted(readFault)

\* TaskStorage.load, called by the caller
Load(p) ==
    /\ inst[p]
    /\ Begin(p, "load", <<>>, "")
    /\ \E f \in ReadOf(p) : \E readFault \in ReadFaults, g \in LoadMoments(f) :
          LET r == load(f, readFault, g)
          IN  EndAtOnce(p, r, r.val) /\ Counted(readFault)

\* a get_all that hands out again the objects it handed out before
get_all_Cached(p) ==
    /\ inst[p]
    /\ Begin(p, "get_all", <<>>, "")
    /\ \E f \in ReadOf(p) : \E readFault \in ReadFaults, g \in LoadMoments(f) :
          LET r == load(f, readFault, g)
          IN  /\ Counted(readFault)
              /\ IF r.status = "error" THEN EndAtOnce(p, r, <<>>)
                 ELSE IF held[p] /= <<>> THEN EndAtOnce(p, Returned(held[p], ""), r.val)
                 ELSE EndAtOnce(p, Returned(Copies(r.val, g), ""), r.val)

\* TaskStorage.get_all
get_all(p) ==
    /\ inst[p]
    /\ Begin(p, "get_all", <<>>, "")
    /\ \E f \in ReadOf(p) : \E readFault \in ReadFaults, g \in LoadMoments(f) :
          LET r == load(f, readFault, g)
          IN  /\ Counted(readFault)
              /\ IF r.status = "error" THEN EndAtOnce(p, r, <<>>)
                 ELSE EndAtOnce(p, Returned(Copies(r.val, g), ""), r.val)

\* TaskStorage.get_by_id
get_by_id(p, id) ==
    /\ inst[p]
    /\ Begin(p, "get_by_id", <<>>, id)
    /\ \E f \in ReadOf(p) : \E readFault \in ReadFaults, g \in LoadMoments(f) :
          LET r == load(f, readFault, g)
          IN  /\ Counted(readFault)
              /\ IF r.status = "error" THEN EndAtOnce(p, r, <<>>)
                 ELSE IF HasId(r.val, id)
                 THEN EndAtOnce(p, Returned(<<r.val[FirstIndex(r.val, id)]>>, ""), r.val)
                 ELSE EndAtOnce(p, Raised("TaskNotFoundError", "not found", "check"), r.val)

\* TaskStorage.save, called by the caller
save(p, ts) ==
    /\ inst[p]
    /\ Begin(p, "save", ts, "")
    /\ GoSave(p, <<>>, ts)
    /\ NoFault

\* an add that does not look for the id among the loaded tasks
add_WithoutCheck(p, t) ==
    /\ inst[p]
    /\ Begin(p, "add", <<t>>, t.id)
    /\ \E f \in ReadOf(p) : \E readFault \in ReadFaults, g \in LoadMoments(f) :
          LET r == load(f, readFault, g)
          IN  /\ Counted(readFault)
              /\ IF r.status = "error" THEN EndAtOnce(p, r, <<>>)
                 ELSE GoSave(p, r.val, AddTask(r.val, t))

\* TaskStorage.add, up to the call of save
add(p, t) ==
    /\ inst[p]
    /\ Begin(p, "add", <<t>>, t.id)
    /\ \E f \in ReadOf(p) : \E readFault \in ReadFaults, g \in LoadMoments(f) :
          LET r == load(f, readFault, g)
          IN  /\ Counted(readFault)
              /\ IF r.status = "error" THEN EndAtOnce(p, r, <<>>)
                 ELSE IF HasId(r.val, t.id)
                 THEN EndAtOnce(p, Raised("StorageError", "already exists", "check"), r.val)
                 ELSE GoSave(p, r.val, AddTask(r.val, t))

\* a remove that takes a file it cannot load for an empty collection
remove_LoadErrorAsEmpty(p, id) ==
    /\ inst[p]
    /\ Begin(p, "remove", <<>>, id)
    /\ \E f \in ReadOf(p) : \E readFault \in ReadFaults, g \in LoadMoments(f) :
          LET r == load(f, readFault, g)
              ts == IF r.status = "error" THEN <<>> ELSE r.val
          IN  /\ Counted(readFault)
              /\ IF Len(RemoveTask(ts, id)) = Len(ts)
                 THEN EndAtOnce(p, Raised("TaskNotFoundError", "not found", "check"), ts)
                 ELSE GoSave(p, ts, RemoveTask(ts, id))

\* TaskStorage.remove, up to the call of save
remove(p, id) ==
    /\ inst[p]
    /\ Begin(p, "remove", <<>>, id)
    /\ \E f \in ReadOf(p) : \E readFault \in ReadFaults, g \in LoadMoments(f) :
          LET r == load(f, readFault, g)
          IN  /\ Counted(readFault)
              /\ IF r.status = "error" THEN EndAtOnce(p, r, <<>>)
                 ELSE IF Len(RemoveTask(r.val, id)) = Len(r.val)
                 THEN EndAtOnce(p, Raised("TaskNotFoundError", "not found", "check"), r.val)
                 ELSE GoSave(p, r.val, RemoveTask(r.val, id))

\* TaskStorage.update, up to the call of save
update(p, t) ==
    /\ inst[p]
    /\ Begin(p, "update", <<t>>, t.id)
    /\ \E f \in ReadOf(p) : \E readFault \in ReadFaults, g \in LoadMoments(f) :
          LET r == load(f, readFault, g)
          IN  /\ Counted(readFault)
              /\ IF r.status = "error" THEN EndAtOnce(p, r, <<>>)
                 ELSE IF FirstIndex(r.val, t.id) = 0
                 THEN EndAtOnce(p, Raised("TaskNotFoundError", "not found", "check"), r.val)
                 ELSE GoSave(p, r.val, UpdateTask(r.val, t))

\* open descriptors follow the file, not the name: after a rename of the
\* temporary file onto the target, a descriptor opened on the temporary file
\* writes into the target, and one opened on the old target reads or writes a
\* file that has no name any more.  The inode number a caller got from a stat
\* of the old target is free, once no one has that file open, for the next file
\* that is made
AfterRename == [q \in Callers |-> IF fd[q] = "tmp" THEN "target"
                                  ELSE IF fd[q] = "target" THEN "gone"
                                  ELSE IF fd[q] = "statted" THEN "freed" ELSE fd[q]]
AfterUnlink == [q \in Callers |-> IF fd[q] = "tmp" THEN "gone" ELSE fd[q]]

\* what a file holds after new was written from its start: new when the file
\* was empty or held the same bytes; otherwise new when it is not shorter than
\* what was there, and else new followed by the rest of the old bytes
WriteOver(old, new) == IF old = Truncated \/ old = new THEN {new} ELSE {new, Garbage}

\* the content c lands in the file the descriptor of caller p points to
WriteThrough(p, c) ==
    CASE fd[p] = "tmp" -> tmp' = c /\ UNCHANGED target
      [] fd[p] = "target" -> target' = c /\ UNCHANGED tmp
      [] OTHER -> UNCHANGED <<target, tmp>>
Behind(p) == IF fd[p] = "tmp" THEN tmp ELSE IF fd[p] = "target" THEN target ELSE Truncated

\* an _atomic_write that opens the target itself for writing
OpenTmpInPlace(p) ==
    /\ pc[p] = "tmp_open"
    /\ UNCHANGED <<tmp, backup, inst, op, tasks, data, src, res, pre, held, issued, dir>>
    /\ \/ /\ target' = Truncated
          /\ fd' = [fd EXCEPT ![p] = "tmp"]
          /\ pc' = [pc EXCEPT ![p] = "tmp_write"]
          /\ UNCHANGED exc
          /\ NoFault
       \/ /\ pc' = [pc EXCEPT ![p] = "cleanup"]
          /\ exc' = [exc EXCEPT ![p] = "tmp_open"]
          /\ UNCHANGED <<target, fd>>
          /\ Fault(p)

\* an _atomic_write that copies the target to the backup before it writes
OpenTmpBackupFirst(p) ==
    /\ pc[p] = "tmp_open"
    /\ UNCHANGED <<target, inst, op, tasks, data, src, res, pre, held, issued, dir>>
    /\ \/ /\ tmp' = Truncated
          /\ backup' = target
          /\ fd' = [fd EXCEPT ![p] = "tmp"]
          /\ pc' = [pc EXCEPT ![p] = "tmp_write"]
          /\ UNCHANGED exc
          /\ NoFault
       \/ /\ pc' = [pc EXCEPT ![p] = "cleanup"]
          /\ exc' = [exc EXCEPT ![p] = "tmp_open"]
          /\ UNCHANGED <<tmp, backup, fd>>
          /\ Fault(p)

\* an _atomic_write that opens the temporary file with mode 'x': the open
\* fails when the file is there already
OpenTmp_Exclusive(p) ==
    /\ pc[p] = "tmp_open"
    /\ UNCHANGED <<target, backup, inst, op, tasks, data, src, res, pre, held, issued, dir>>
    /\ \/ /\ ~Exists(tmp)
          /\ tmp' = Truncated
          /\ fd' = [fd EXCEPT ![p] = "tmp"]
          /\ pc' = [pc EXCEPT ![p] = "tmp_write"]
          /\ UNCHANGED exc
          /\ NoFault
       \/ /\ Exists(tmp)
          /\ pc' = [pc EXCEPT ![p] = "cleanup"]
          /\ exc' = [exc EXCEPT ![p] = "tmp_open"]
          /\ UNCHANGED <<tmp, fd>>
          /\ NoFault
       \/ /\ pc' = [pc EXCEPT ![p] = "cleanup"]
          /\ exc' = [exc EXCEPT ![p] = "tmp_open"]
          /\ UNCHANGED <<tmp, fd>>
          /\ Fault(p)

\* _atomic_write: open(temp_path, 'w') creates the temporary file, or empties
\* the one that is there, whoever else has it open
OpenTmp(p) ==
    /\ pc[p] = "tmp_open"
    /\ UNCHANGED <<target, backup, inst, op, tasks, data, src, res, pre, held, issued, dir>>
    /\ \/ /\ tmp' = Truncated
          /\ fd' = [fd EXCEPT ![p] = "tmp"]
          /\ pc' = [pc EXCEPT ![p] = "tmp_write"]
          /\ UNCHANGED exc
          /\ NoFault
       \/ /\ pc' = [pc EXCEPT ![p] = "cleanup"]
          /\ exc' = [exc EXCEPT ![p] = "tmp_open"]
          /\ UNCHANGED <<tmp, fd>>
          /\ Fault(p)

\* an _atomic_write whose json.dump goes to the target path
WriteTmpInPlace(p) ==
    /\ pc[p] = "tmp_write"
    /\ UNCHANGED <<tmp, backup, inst, op, tasks, data, src, res, pre, held, issued, dir>>
    /\ fd' = [fd EXCEPT ![p] = ""]
    /\ \/ /\ target' = json_dump(data[p])
          /\ pc' = [pc EXCEPT ![p] = "rename"]
          /\ UNCHANGED exc
          /\ NoFault
       \/ /\ target' = Truncated
          /\ pc' = [pc EXCEPT ![p] = "cleanup"]
          /\ exc' = [exc EXCEPT ![p] = "tmp_write"]
          /\ Fault(p)

\* _atomic_write: json.dump and the close of the with block; the bytes go to
\* the file that was opened, wherever it is by now.  A write that fails is
\* tried once more by the close: the OSError reaches the except block with
\* the file cut short, or with every byte in it when the second try or only
\* the close itself was what failed.  A caller that has read the first block
\* of the file these bytes land in, for a load or for a backup copy, reads
\* the rest from a file rewritten under it
WriteTmp(p) ==
    /\ pc[p] = "tmp_write"
    /\ UNCHANGED <<backup, inst, op, tasks, data, src, res, pre, held, issued, dir>>
    /\ \/ /\ \E c \in WriteOver(Behind(p), json_dump(data[p])) : WriteThrough(p, c)
          /\ pc' = [pc EXCEPT ![p] = "rename"]
          /\ UNCHANGED exc
          /\ NoFault
       \/ /\ \E c \in WriteOver(Behind(p), json_dump(data[p])) \cup {Truncated} : WriteThrough(p, c)
          /\ pc' = [pc EXCEPT ![p] = "cleanup"]
          /\ exc' = [exc EXCEPT ![p] = "tmp_write"]
          /\ Fault(p)
    /\ fd' = [q \in Callers |->
                IF q = p THEN ""
                ELSE IF /\ fd[p] = "target" /\ target' /= target
                        /\ pc[q] = "idle" \/ (pc[q] = "backup_rest" /\ fd[q] = "target")
                     THEN "rewritten" ELSE fd[q]]

\* a rename that refuses when the target is no longer what this save loaded
RenameDetectsConflict(p) ==
    /\ pc[p] = "rename"
    /\ UNCHANGED <<backup, inst, op, tasks, data, res, pre, held, issued, dir>>
    /\ \/ /\ Exists(tmp) /\ target = pre[p].target
          /\ target' = tmp
          /\ tmp' = NoFile
          /\ fd' = AfterRename
          /\ src' = [q \in Callers |-> IF fd[q] = "target" /\ pc[q] \in {"backup_dst", "backup_copy"}
                                       THEN target ELSE src[q]]
          /\ pc' = [pc EXCEPT ![p] = "backup_stat"]
          /\ UNCHANGED exc
          /\ NoFault
       \/ /\ Exists(tmp) /\ target /= pre[p].target
          /\ pc' = [pc EXCEPT ![p] = "cleanup"]
          /\ exc' = [exc EXCEPT ![p] = "conflict"]
          /\ UNCHANGED <<target, tmp, fd, src>>
          /\ NoFault
       \/ /\ ~Exists(tmp)
          /\ pc' = [pc EXCEPT ![p] = "cleanup"]
          /\ exc' = [exc EXCEPT ![p] = "rename"]
          /\ UNCHANGED <<target, tmp, fd, src>>
          /\ NoFault
       \/ /\ pc' = [pc EXCEPT ![p] = "cleanup"]
          /\ exc' = [exc EXCEPT ![p] = "rename"]
          /\ UNCHANGED <<target, tmp, fd, src>>
          /\ Fault(p)

\* _atomic_write: temp_path.rename(self._file_path) replaces the target by
\* whatever file has the temporary name now; FileNotFoundError when none has
Rename(p) ==
    /\ pc[p] = "rename"
    /\ UNCHANGED <<backup, inst, op, tasks, data, res, pre, held, issued, dir>>
    /\ \/ /\ Exists(tmp)
          /\ target' = tmp
          /\ tmp' = NoFile
          /\ fd' = AfterRename
          /\ src' = [q \in Callers |-> IF fd[q] = "target" /\ pc[q] \in {"backup_dst", "backup_copy"}
                                       THEN target ELSE src[q]]
          /\ pc' = [pc EXCEPT ![p] = "backup_stat"]
          /\ UNCHANGED exc
          /\ NoFault
       \/ /\ ~Exists(tmp)
          /\ pc' = [pc EXCEPT ![p] = "cleanup"]
          /\ exc' = [exc EXCEPT ![p] = "rename"]
          /\ UNCHANGED <<target, tmp, fd, src>>
          /\ NoFault
       \/ /\ pc' = [pc EXCEPT ![p] = "cleanup"]
          /\ exc' = [exc EXCEPT ![p] = "rename"]
          /\ UNCHANGED <<target, tmp, fd, src>>
          /\ Fault(p)

\* a _create_backup that copies what the target held before the write
BackupOpenOldContent(p) ==
    /\ pc[p] = "backup_open"
    /\ UNCHANGED <<target, tmp, backup, inst, op, tasks, pre, held, issued, dir>>
    /\ \/ /\ Exists(target)
          /\ src' = [src EXCEPT ![p] = pre[p].target]
          /\ fd' = [fd EXCEPT ![p] = "gone"]
          /\ pc' = [pc EXCEPT ![p] = "backup_dst"]
          /\ UNCHANGED <<exc, res, data>>
          /\ NoFault
       \/ /\ Finish(p, Returned(<<>>, "backup failed"))
          /\ UNCHANGED fd
          /\ Fault(p)

\* _create_backup: shutil.copy2 first asks whether the target and the backup
\* are one file (_samefile): os.stat of the target; an OSError of a stat
\* counts as "not the same".  The inode number matters only while there is
\* no backup file: one that exists keeps its own
BackupStat(p) ==
    /\ pc[p] = "backup_stat"
    /\ UNCHANGED <<target, tmp, backup, inst, op, tasks, data, exc, src, res, pre, held, issued,
                 dir>>
    /\ fd' = [fd EXCEPT ![p] = IF Exists(backup) THEN "" ELSE "statted"]
    /\ pc' = [pc EXCEPT ![p] = "backup_same"]
    /\ NoFault

\* _samefile: os.stat of the backup and the comparison of the two results.
\* They agree when the file the first stat saw was replaced since and the
\* backup, made after that, got its inode number: copyfile raises
\* SameFileError, an OSError, which _create_backup swallows
BackupSame(p) ==
    /\ pc[p] = "backup_same"
    /\ UNCHANGED <<target, tmp, backup, inst, op, tasks, pre, held, issued, dir>>
    /\ fd' = [fd EXCEPT ![p] = ""]
    /\ NoFault
    /\ \/ /\ pc' = [pc EXCEPT ![p] = "backup_open"]
          /\ UNCHANGED <<exc, res, data, src>>
       \/ /\ fd[p] = "reused"
          /\ Finish(p, Returned(<<>>, "backup failed"))

\* _create_backup: shutil.copy2 opens the target for reading; an OSError is
\* swallowed and save returns
BackupOpen(p) ==
    /\ pc[p] = "backup_open"
    /\ UNCHANGED <<target, tmp, backup, inst, op, tasks, pre, held, issued, dir>>
    /\ \/ /\ Exists(target)
          /\ src' = [src EXCEPT ![p] = target]
          /\ fd' = [fd EXCEPT ![p] = "target"]
          /\ pc' = [pc EXCEPT ![p] = "backup_dst"]
          /\ UNCHANGED <<exc, res, data>>
          /\ NoFault
       \/ /\ Finish(p, Returned(<<>>, "backup failed"))
          /\ UNCHANGED fd
          /\ Fault(p)

\* _create_backup: shutil.copy2 then opens the backup for writing, which
\* empties it, or makes it when there is none; an OSError is swallowed and
\* save returns.  A file that is made may get an inode number that is free
BackupOpenDst(p) ==
    /\ pc[p] = "backup_dst"
    /\ UNCHANGED <<target, tmp, inst, op, tasks, pre, held, issued, dir>>
    /\ \/ /\ backup' = Truncated
          /\ fd' = [q \in Callers |-> IF ~Exists(backup) /\ fd[q] = "freed" THEN "reused"
                                       ELSE fd[q]]
          /\ pc' = [pc EXCEPT ![p] = "backup_copy"]
          /\ UNCHANGED <<exc, res, data, src>>
          /\ NoFault
       \/ /\ Finish(p, Returned(<<>>, "backup failed"))
          /\ fd' = [fd EXCEPT ![p] = ""]
          /\ UNCHANGED backup
          /\ Fault(p)

\* what the backup holds after the first sendfile of caller p's copy: the
\* bytes the file it opened holds now, written from the start over what
\* another caller's copy may have put there
CopyResults(p) == WriteOver(backup, IF fd[p] = "target" THEN target ELSE src[p])

\* a _create_backup that lets the OSError of the copy escape
BackupCopyRaises(p) ==
    /\ pc[p] = "backup_copy"
    /\ UNCHANGED <<target, tmp, inst, op, tasks, pre, held, issued, dir>>
    /\ \/ /\ \E c \in CopyResults(p) : backup' = c
          /\ pc' = [pc EXCEPT ![p] = "backup_rest"]
          /\ UNCHANGED <<fd, exc, res, data, src>>
          /\ NoFault
       \/ /\ backup' = Truncated
          /\ fd' = [fd EXCEPT ![p] = ""]
          /\ Finish(p, RaisedNote("StorageError", "Failed to save tasks", "backup_copy",
                                  "backup failed"))
          /\ Fault(p)

\* _create_backup: shutil.copy2 copies the bytes (copyfile) in a loop of
\* sendfile calls that ends when one copies nothing.  The first copies what
\* the file holds; one that fails leaves the backup cut short, and the
\* OSError is swallowed and save returns
BackupCopy(p) ==
    /\ pc[p] = "backup_copy"
    /\ UNCHANGED <<target, tmp, inst, op, tasks, pre, held, issued, dir>>
    /\ \/ /\ \E c \in CopyResults(p) : backup' = c
          /\ pc' = [pc EXCEPT ![p] = "backup_rest"]
          /\ UNCHANGED <<fd, exc, res, data, src>>
          /\ NoFault
       \/ /\ backup' = Truncated
          /\ fd' = [fd EXCEPT ![p] = ""]
          /\ Finish(p, Returned(<<>>, "backup failed"))
          /\ Fault(p)

\* _create_backup: the sendfile calls after the first, then the times and the
\* mode (copystat).  The file that is read has grown when a json.dump landed
\* in it since the first call: the bytes past the old end follow the copy.  A
\* copystat that fails leaves every byte in the backup; its OSError is
\* swallowed and save returns
BackupRest(p) ==
    /\ pc[p] = "backup_rest"
    /\ UNCHANGED <<target, tmp, inst, op, tasks, pre, held, issued, dir>>
    /\ fd' = [fd EXCEPT ![p] = ""]
    /\ backup' \in {backup} \cup (IF fd[p] = "rewritten" THEN {Garbage} ELSE {})
    /\ \/ Finish(p, Returned(<<>>, "backup copied")) /\ NoFault
       \/ Finish(p, Returned(<<>>, "backup failed")) /\ Fault(p)

\* _atomic_write: the except block asks temp_path.exists(); without the file
\* it re-raises at once, and save turns the OSError into a StorageError.  An
\* exists() that raises leaves the block before the unlink: the temporary
\* file stays, and its OSError is the one save turns into the StorageError
Cleanup(p) ==
    /\ pc[p] = "cleanup"
    /\ UNCHANGED <<target, tmp, backup, inst, op, tasks, pre, fd, held, issued, dir>>
    /\ \/ /\ Exists(tmp)
          /\ pc' = [pc EXCEPT ![p] = "cleanup_unlink"]
          /\ UNCHANGED <<exc, res, data, src>>
          /\ NoFault
       \/ /\ ~Exists(tmp)
          /\ Finish(p, Raised("StorageError", "Failed to save tasks", exc[p]))
          /\ NoFault
       \/ /\ Finish(p, RaisedNote("StorageError", "Failed to save tasks", exc[p], "exists failed"))
          /\ Fault(p)

\* _atomic_write: temp_path.unlink() in the except block, then the re-raise.
\* An unlink that raises, by a fault or because the file has gone since
\* exists() was asked, replaces the exception that travels; save turns either
\* into a StorageError
CleanupUnlink(p) ==
    /\ pc[p] = "cleanup_unlink"
    /\ UNCHANGED <<target, backup, inst, op, tasks, pre, held, issued, dir>>
    /\ \/ /\ Exists(tmp)
          /\ tmp' = NoFile
          /\ fd' = AfterUnlink
          /\ Finish(p, Raised("StorageError", "Failed to save tasks", exc[p]))
          /\ NoFault
       \/ /\ Exists(tmp)
          /\ Finish(p, RaisedNote("StorageError", "Failed to save tasks", exc[p], "unlink failed"))
          /\ UNCHANGED <<tmp, fd>>
          /\ Fault(p)
       \/ /\ ~Exists(tmp)
          /\ Finish(p, RaisedNote("StorageError", "Failed to save tasks", exc[p], "unlink failed"))
          /\ UNCHANGED <<tmp, fd>>
          /\ NoFault

\* the caller's process is killed in the middle of an operation: before the
\* I/O call of the step it is at, or after that call took effect and before
\* the operation returned
Kill(p) ==
    /\ pc[p] /= "idle"
    /\ Finish(p, Killed(pc[p]))
    /\ inst' = [inst EXCEPT ![p] = FALSE]
    /\ UNCHANGED <<op, tasks, pre, held, issued, dir>>
    /\ \/ /\ UNCHANGED <<target, tmp, backup>>
          /\ fd' = [fd EXCEPT ![p] = ""]
       \/ /\ pc[p] = "init_write"
          /\ target' = json_dump(<<>>)
          /\ fd' = [fd EXCEPT ![p] = ""]
          /\ UNCHANGED <<tmp, backup>>
       \/ /\ pc[p] = "backup_copy"
          /\ \E c \in CopyResults(p) : backup' = c
          /\ fd' = [fd EXCEPT ![p] = ""]
          /\ UNCHANGED <<target, tmp>>
       \/ /\ pc[p] = "cleanup_unlink" /\ Exists(tmp)
          /\ tmp' = NoFile
          /\ fd' = [AfterUnlink EXCEPT ![p] = ""]
          /\ UNCHANGED <<target, backup>>
    /\ Fault(p)

\* the caller changes a task it got from get_all: an assignment to a field of
\* the returned object, here the title of the first one
MutateReturned(p) ==
    /\ pc[p] = "idle" /\ op[p].name = "get_all" /\ res[p].status = "ok"
    /\ Len(res[p].val) > 0 /\ held[p] = <<>>
    /\ held' = [held EXCEPT ![p] = [res[p].val EXCEPT ![1].title = "changed"]]
    /\ UNCHANGED <<target, tmp, backup, pc, inst, op, tasks, data, exc, src, res, pre, fd, faults,
                 issued, dir>>


Step(p) ==
    \/ Construct(p)
    \/ ConstructExists(p)
    \/ ConstructOpen(p)
    \/ ConstructWrite(p)
    \/ Load(p)
    \/ get_all(p)
    \/ \E id \in InputIds : get_by_id(p, id)
    \/ \E ts \in InputLists : save(p, ts)
    \/ \E t \in InputTasks : add(p, t)
    \/ \E id \in InputIds : remove(p, id)
    \/ \E t \in InputTasks : update(p, t)
    \/ OpenTmp(p)
    \/ WriteTmp(p)
    \/ Rename(p)
    \/ BackupStat(p)
    \/ BackupSame(p)
    \/ BackupOpen(p)
    \/ BackupOpenDst(p)
    \/ BackupCopy(p)
    \/ BackupRest(p)
    \/ Cleanup(p)
    \/ CleanupUnlink(p)
    \/ Kill(p)
    \/ MutateReturned(p)

Init ==
    /\ target \in InitialFiles
    /\ tmp = NoFile
    /\ backup = NoFile
    /\ pc = [p \in Callers |-> "idle"]
    /\ inst = [p \in Callers |-> FALSE]
    /\ op = [p \in Callers |-> NoOp]
    /\ tasks = [p \in Callers |-> <<>>]
    /\ data = [p \in Callers |-> <<>>]
    /\ exc = [p \in Callers |-> ""]
    /\ src = [p \in Callers |-> NoFile]
    /\ res = [p \in Callers |-> NoResult]
    /\ pre = [p \in Callers |-> [target |-> NoFile, tmp |-> NoFile, backup |-> NoFile]]
    /\ fd = [p \in Callers |-> ""]
    /\ held = [p \in Callers |-> <<>>]
    /\ faults = 0
    /\ issued = 0
    /\ dir \in {d \in BOOLEAN : Exists(target) => d}

\* a single caller at a time, as the store is meant to be used
Next == Step("w1")

Spec == Init /\ [][Next]_vars

\* the store constructed on a path that holds no file or a foreign one, or
\* a target that was damaged after a save had written the backup, or a store
\* whose file was deleted after it had been constructed
InitForeign ==
    /\ \/ /\ target \in {NoFile} \cup ForeignFiles /\ backup = NoFile
          /\ inst = [p \in Callers |-> FALSE]
       \/ /\ target = Garbage /\ backup = json_dump(<<DictRaw>>)
          /\ inst = [p \in Callers |-> FALSE]
       \/ /\ target = NoFile /\ backup = NoFile
          /\ inst = [p \in Callers |-> p = "w1"]
    /\ tmp = NoFile
    /\ pc = [p \in Callers |-> "idle"]
    /\ op = [p \in Callers |-> NoOp]
    /\ tasks = [p \in Callers |-> <<>>]
    /\ data = [p \in Callers |-> <<>>]
    /\ exc = [p \in Callers |-> ""]
    /\ src = [p \in Callers |-> NoFile]
    /\ res = [p \in Callers |-> NoResult]
    /\ pre = [p \in Callers |-> [target |-> NoFile, tmp |-> NoFile, backup |-> NoFile]]
    /\ fd = [p \in Callers |-> ""]
    /\ held = [p \in Callers |-> <<>>]
    /\ faults = 0
    /\ issued = 0
    /\ dir = TRUE

SpecForeign == InitForeign /\ [][Next]_vars

\* two callers, each with its own TaskStorage on the same path, constructed
\* one after the other; their adds interleave step by step and meet no I/O
\* fault
InitConc ==
    /\ target \in {json_dump(<<>>), json_dump(<<DictRaw>>)}
    /\ tmp = NoFile
    /\ backup = NoFile
    /\ pc = [p \in Callers |-> "idle"]
    /\ inst = [p \in Callers |-> TRUE]
    /\ op = [p \in Callers |-> NoOp]
    /\ tasks = [p \in Callers |-> <<>>]
    /\ data = [p \in Callers |-> <<>>]
    /\ exc = [p \in Callers |-> ""]
    /\ src = [p \in Callers |-> NoFile]
    /\ res = [p \in Callers |-> NoResult]
    /\ pre = [p \in Callers |-> [target |-> NoFile, tmp |-> NoFile, backup |-> NoFile]]
    /\ fd = [p \in Callers |-> ""]
    /\ held = [p \in Callers |-> <<>>]
    /\ faults = MaxFaults
    /\ issued = 0
    /\ dir = TRUE


StepConc(p) ==
    \/ \E t \in {T1, T2} : add(p, t)
    \/ OpenTmp(p)
    \/ WriteTmp(p)
    \/ Rename(p)
    \/ BackupStat(p)
    \/ BackupSame(p)
    \/ BackupOpen(p)
    \/ BackupOpenDst(p)
    \/ BackupCopy(p)
    \/ BackupRest(p)
    \/ Cleanup(p)
    \/ CleanupUnlink(p)

NextConc == \E p \in Callers : StepConc(p)

SpecConc == InitConc /\ [][NextConc]_vars

\* one caller with a constructed store on a file whose records have pairwise
\* distinct ids, one of them none at all; the caller loads, adds, removes and
\* updates, meets faults, is killed and constructs the store again
InitMutators ==
    /\ target \in {json_dump(<<>>), json_dump(<<DictRaw>>), json_dump(<<to_dict(T1), DictNoId>>)}
    /\ tmp = NoFile
    /\ backup = NoFile
    /\ pc = [p \in Callers |-> "idle"]
    /\ inst = [p \in Callers |-> p = "w1"]
    /\ op = [p \in Callers |-> NoOp]
    /\ tasks = [p \in Callers |-> <<>>]
    /\ data = [p \in Callers |-> <<>>]
    /\ exc = [p \in Callers |-> ""]
    /\ src = [p \in Callers |-> NoFile]
    /\ res = [p \in Callers |-> NoResult]
    /\ pre = [p \in Callers |-> [target |-> NoFile, tmp |-> NoFile, backup |-> NoFile]]
    /\ fd = [p \in Callers |-> ""]
    /\ held = [p \in Callers |-> <<>>]
    /\ faults = 0
    /\ issued = 0
    /\ dir = TRUE

StepMutators(p) ==
    \/ Construct(p)
    \/ ConstructExists(p)
    \/ Load(p)
    \/ \E t \in InputTasks : add(p, t)
    \/ \E id \in InputIds : remove(p, id)
    \/ \E t \in InputTasks : update(p, t)
    \/ OpenTmp(p)
    \/ WriteTmp(p)
    \/ Rename(p)
    \/ BackupStat(p)
    \/ BackupSame(p)
    \/ BackupOpen(p)
    \/ BackupOpenDst(p)
    \/ BackupCopy(p)
    \/ BackupRest(p)
    \/ Cleanup(p)
    \/ CleanupUnlink(p)
    \/ Kill(p)

NextMutators == StepMutators("w1")

SpecMutators == InitMutators /\ [][NextMutators]_vars

(***************************************************************************)
(* models.py: Task.validate, on the strings of the model                   *)
(***************************************************************************)
\* a title of 201 characters; "<1001 x>" is a description of 1001
LongTitle == "<201 x>"

\* Task.validate: "" or the exception raised; "31-12-2027" is a string that
\* strptime(s, "%Y-%m-%d") rejects, "2020-01-01" a day before today
validate(t) ==
    IF t.title = None \/ t.title = "" \/ Strip(t.title) = "" THEN "ValidationError"
    ELSE IF t.title = LongTitle THEN "ValidationError"
    ELSE IF t.description /= None /\ t.description = "<1001 x>" THEN "ValidationError"
    ELSE IF t.due_date /= None /\ t.due_date = "31-12-2027" THEN "ValidationError"
    ELSE IF t.due_date /= None /\ t.due_date = "2020-01-01" THEN "ValidationError"
    ELSE ""

(***************************************************************************)
(* operations.py: the functions over the module's one store                *)
(***************************************************************************)
\* the values uuid4() returns, in the order it returns them: no value comes
\* twice, whatever became of the task that got it
UuidPool == <<"uuid-a", "uuid-b">>
\* whether uuid4() has a value left in the pool; create_task waits when it
\* has none, which bounds the number of tasks one run creates
UuidsLeft == issued < Len(UuidPool)
\* uuid4() for the task create_task makes
NextUuid == UuidPool[issued + 1]

\* what callers pass to create_task: title, description, priority, due_date
CreateArgs(title, description, priority, due_date) ==
    [title |-> title, description |-> description, priority |-> priority, due_date |-> due_date]
CreateInputs ==
    {CreateArgs("A", None, "high", None),
     CreateArgs(" Y ", "desc", "LOW", "2027-12-01"),
     CreateArgs("C", None, "medium", "2027-2-1"),
     CreateArgs("  ", None, "medium", None),
     CreateArgs("A", None, "urgent", None),
     CreateArgs("A", None, "high", "2020-01-01"),
     CreateArgs(LongTitle, None, "low", None)}
\* the ids callers pass to the functions that take one
OpsIds == {UuidPool[i] : i \in 1..Len(UuidPool)} \cup {"nonexistent"}

\* the position of the string s in the order Python compares strings by
StrOrd(s) ==
    CASE s = "" -> 0
      [] s = "2020-01-01" -> 1
      [] s = "2026-12-31" -> 2
      [] s = "2027-12-01" -> 3
      [] s = "2027-2-1" -> 4
      [] s = "31-12-2027" -> 5
      [] OTHER -> 6
\* the day strptime(s, "%Y-%m-%d") reads from the string s, as a position in
\* the calendar: the month and the day need no leading zero
DateOrd(s) ==
    CASE s = "2020-01-01" -> 1
      [] s = "2026-12-31" -> 2
      [] s = "2027-2-1" -> 3
      [] s = "2027-12-01" -> 4
      [] OTHER -> 0
\* the position of the isoformat timestamp s in that order
TimeOrd(s) == IF \E g \in 0..(NumGens + 1) : Now(g) = s
              THEN CHOOSE g \in 0..(NumGens + 1) : Now(g) = s
              ELSE 0
\* priority_order in list_tasks
priority_order(x) ==
    CASE x = "Priority.HIGH" -> 0
      [] x = "Priority.MEDIUM" -> 1
      [] x = "Priority.LOW" -> 2

\* whether the sort of list_tasks puts a strictly before b: the key of a is
\* less than the key of b, or greater where reverse=True
KeyLess(sort_by, a, b) ==
    CASE sort_by = "created_at" -> TimeOrd(a.created_at) > TimeOrd(b.created_at)
      [] sort_by = "due_date" ->
            LET na == IF a.due_date = None THEN 1 ELSE 0
                nb == IF b.due_date = None THEN 1 ELSE 0
                sa == StrOrd(IF a.due_date = None THEN "" ELSE a.due_date)
                sb == StrOrd(IF b.due_date = None THEN "" ELSE b.due_date)
            IN  na < nb \/ (na = nb /\ sa < sb)
      [] sort_by = "priority" -> priority_order(a.priority) < priority_order(b.priority)
      [] OTHER -> FALSE

Perms(n) == {f \in [1..n -> 1..n] : \A i, j \in 1..n : i /= j => f[i] /= f[j]}
\* list.sort: stable, also with reverse=True; no sort for another sort_by
SortTasks(ts, sort_by) ==
    LET n == Len(ts)
        f == CHOOSE f \in Perms(n) : \A i, j \in 1..n : i < j =>
                 \/ KeyLess(sort_by, ts[f[i]], ts[f[j]])
                 \/ ~KeyLess(sort_by, ts[f[j]], ts[f[i]]) /\ f[i] < f[j]
    IN  [i \in 1..n |-> ts[f[i]]]

\* filters that keep a task as soon as one of them admits it
ApplyFilters_Either(ts, status_filter, priority_filter) ==
    SelectSeq(ts, LAMBDA t : \/ status_filter = None /\ priority_filter = None
                             \/ status_filter /= None /\ t.status = status_filter
                             \/ priority_filter /= None /\ t.priority = priority_filter)

\* the two list comprehensions of list_tasks
ApplyFilters(ts, status_filter, priority_filter) ==
    SelectSeq(ts, LAMBDA t : /\ status_filter = None \/ t.status = status_filter
                             /\ priority_filter = None \/ t.priority = priority_filter)

\* what callers pass to list_tasks: status_filter, priority_filter, sort_by
ListArgs(status_filter, priority_filter, sort_by) ==
    [status_filter |-> status_filter, priority_filter |-> priority_filter, sort_by |-> sort_by]
ListInputs ==
    {ListArgs(None, None, "created_at"),
     ListArgs(None, None, "due_date"),
     ListArgs(None, None, "priority"),
     ListArgs(None, None, "title"),
     ListArgs("Status.ACTIVE", None, "created_at"),
     ListArgs("Status.COMPLETED", None, "due_date"),
     ListArgs("Status.COMPLETED", "Priority.LOW", "priority")}

\* completed_tasks in clear_completed_tasks
CompletedTasks(ts) == SelectSeq(ts, LAMBDA t : t.status = "Status.COMPLETED")

\* the loop of clear_completed_tasks over the completed tasks cs, from
\* position k on, the file holding the list ts: each storage.remove loads,
\* drops the tasks with the id and saves; a remove that finds no task with
\* the id raises and ends the loop.  saved: whether a save has happened.
RECURSIVE RemoveEach(_, _, _, _)
RemoveEach(ts, cs, k, saved) ==
    IF k > Len(cs) THEN [exc |-> "", stored |-> ts, saved |-> saved]
    ELSE IF Len(RemoveTask(ts, cs[k].id)) = Len(ts)
    THEN [exc |-> "TaskNotFoundError", stored |-> ts, saved |-> saved]
    ELSE RemoveEach(RemoveTask(ts, cs[k].id), cs, k + 1, TRUE)

\* a save that meets no fault, from its first step to its last: the
\* temporary file is written and renamed onto the target, and the target is
\* copied to the backup
SaveDone(ts) ==
    /\ target' = json_dump(ToDicts(ts))
    /\ tmp' = NoFile
    /\ backup' = json_dump(ToDicts(ts))

\* the function of caller p ends with r, having loaded the list loaded
OpsEnd(p, r, loaded) ==
    /\ Finish(p, r)
    /\ tasks' = [tasks EXCEPT ![p] = loaded]
    /\ UNCHANGED <<inst, faults>>

\* what the store of this module loads: its file holds records with every
\* field, so that the moment of a load decides nothing
Loaded == load(target, FALSE, 1)

\* Task(title=..., description=..., priority=..., due_date=...) in create_task
BuildTask(in, uuid, now) ==
    PostInit([id |-> None, title |-> in.title, description |-> in.description,
              priority |-> in.priority, due_date |-> in.due_date,
              status |-> "Status.ACTIVE", created_at |-> None, completed_at |-> None],
             uuid, now)

\* whether Task(...) or validate() raises for these arguments
Rejected(in) ==
    BuildTask(in, UuidPool[1], Now(1)).exc /= ""
        \/ validate(BuildTask(in, UuidPool[1], Now(1)).task) /= ""

\* create_task; the id of a task that is rejected is seen by no one, so
\* that only a task that reaches the store takes a value of the pool
create_task(p, in) ==
    /\ inst[p]
    /\ BeginMaking(p, "create_task", <<in>>, "")
    /\ \E r \in {Loaded} :
          IF Rejected(in)
          THEN /\ OpsEnd(p, Raised("ValidationError", "invalid", "validate"), <<>>)
               /\ UNCHANGED <<target, tmp, backup, issued>>
          ELSE IF r.status = "error"
          THEN OpsEnd(p, r, <<>>) /\ UNCHANGED <<target, tmp, backup, issued>>
          ELSE /\ UuidsLeft
               /\ issued' = issued + 1
               /\ \E g \in 1..NumGens :
                     LET t == BuildTask(in, NextUuid, Now(g)).task
                     IN  IF HasId(r.val, t.id)
                         THEN /\ OpsEnd(p, Raised("StorageError", "already exists", "check"),
                                        r.val)
                              /\ UNCHANGED <<target, tmp, backup>>
                         ELSE /\ OpsEnd(p, Returned(<<t>>, ""), r.val)
                              /\ SaveDone(AddTask(r.val, t))

\* the moments at which mark_complete may read the clock; mark_incomplete
\* reads none
Moments(status) == IF status = "Status.COMPLETED" THEN 1..NumGens ELSE {1}

\* update_task_status: get_by_id, mark_complete or mark_incomplete, update
update_task_status(p, id, status) ==
    /\ inst[p]
    /\ Begin(p, "update_task_status", <<status>>, id)
    /\ \E r \in {Loaded} :
          IF r.status = "error"
          THEN OpsEnd(p, r, <<>>) /\ UNCHANGED <<target, tmp, backup>>
          ELSE IF ~HasId(r.val, id)
          THEN /\ OpsEnd(p, Raised("TaskNotFoundError", "not found", "check"), r.val)
               /\ UNCHANGED <<target, tmp, backup>>
          ELSE \E g \in Moments(status) :
                  LET task == r.val[FirstIndex(r.val, id)]
                      t2 == IF status = "Status.COMPLETED"
                            THEN mark_complete(task, Now(g))
                            ELSE mark_incomplete(task)
                  IN  /\ OpsEnd(p, Returned(<<t2>>, ""), r.val)
                      /\ SaveDone(UpdateTask(r.val, t2))

\* delete_task: storage.remove
delete_task(p, id) ==
    /\ inst[p]
    /\ Begin(p, "delete_task", <<>>, id)
    /\ \E r \in {Loaded} :
          IF r.status = "error"
          THEN OpsEnd(p, r, <<>>) /\ UNCHANGED <<target, tmp, backup>>
          ELSE IF Len(RemoveTask(r.val, id)) = Len(r.val)
          THEN /\ OpsEnd(p, Raised("TaskNotFoundError", "not found", "check"), r.val)
               /\ UNCHANGED <<target, tmp, backup>>
          ELSE /\ OpsEnd(p, Returned(<<>>, ""), r.val)
               /\ SaveDone(RemoveTask(r.val, id))

\* clear_completed_tasks; the count it returns is carried in the note
clear_completed_tasks(p) ==
    /\ inst[p]
    /\ Begin(p, "clear_completed_tasks", <<>>, "")
    /\ \E r \in {Loaded} :
          IF r.status = "error"
          THEN OpsEnd(p, r, <<>>) /\ UNCHANGED <<target, tmp, backup>>
          ELSE LET cs == CompletedTasks(r.val)
                   e == RemoveEach(r.val, cs, 1, FALSE)
               IN  /\ IF e.exc /= ""
                      THEN OpsEnd(p, Raised(e.exc, "not found", "check"), r.val)
                      ELSE OpsEnd(p, Returned(cs, ToString(Len(cs))), r.val)
                   /\ IF e.saved THEN SaveDone(e.stored)
                      ELSE UNCHANGED <<target, tmp, backup>>

\* list_tasks
list_tasks(p, in) ==
    /\ inst[p]
    /\ Begin(p, "list_tasks", <<in>>, "")
    /\ UNCHANGED <<target, tmp, backup>>
    /\ \E r \in {Loaded} :
          IF r.status = "error"
          THEN OpsEnd(p, r, <<>>)
          ELSE OpsEnd(p, Returned(SortTasks(ApplyFilters(Copies(r.val, 1),
                                                          in.status_filter,
                                                          in.priority_filter),
                                             in.sort_by), ""), r.val)

\* the module's store, constructed on a path that held no file
InitOps ==
    /\ target = json_dump(<<>>)
    /\ tmp = NoFile
    /\ backup = NoFile
    /\ pc = [p \in Callers |-> "idle"]
    /\ inst = [p \in Callers |-> p = "w1"]
    /\ op = [p \in Callers |-> NoOp]
    /\ tasks = [p \in Callers |-> <<>>]
    /\ data = [p \in Callers |-> <<>>]
    /\ exc = [p \in Callers |-> ""]
    /\ src = [p \in Callers |-> NoFile]
    /\ res = [p \in Callers |-> NoResult]
    /\ pre = [p \in Callers |-> [target |-> NoFile, tmp |-> NoFile, backup |-> NoFile]]
    /\ fd = [p \in Callers |-> ""]
    /\ held = [p \in Callers |-> <<>>]
    /\ faults = MaxFaults
    /\ issued = 0
    /\ dir = TRUE

\* one caller, one call after the other, no I/O fault: a call is one step
StepOps(p) ==
    \/ \E in \in CreateInputs : create_task(p, in)
    \/ \E id \in OpsIds, status \in StatusEnum : update_task_status(p, id, status)
    \/ \E id \in OpsIds : delete_task(p, id)
    \/ clear_completed_tasks(p)
    \/ \E in \in ListInputs : list_tasks(p, in)

NextOps == StepOps("w1")

SpecOps == InitOps /\ [][NextOps]_vars

\* lists in which two tasks have one id, as TaskStorage.save, which compares
\* no ids, takes them from a caller: two completed tasks of one id, and an
\* active and a completed task of one id
D1 == NewTask(UuidPool[1], "A", None, "high", None, Now(1))
D2 == mark_complete(NewTask(UuidPool[2], "B1", None, "low", None, Now(1)), Now(1))
D3 == mark_complete(NewTask(UuidPool[2], "B2", None, "medium", None, Now(1)), Now(1))
SharedIdList == <<D1, D2, D3>>

\* the module's store on a file that holds one of those lists, as the save
\* that wrote it left the backup; both values of the pool are ids of stored
\* tasks, so uuid4() has none of them left to return
InitShared ==
    /\ target \in {json_dump(ToDicts(SharedIdList)),
                  json_dump(ToDicts(<<D1, mark_incomplete(D3), D2>>))}
    /\ tmp = NoFile
    /\ backup = target
    /\ pc = [p \in Callers |-> "idle"]
    /\ inst = [p \in Callers |-> p = "w1"]
    /\ op = [p \in Callers |-> NoOp]
    /\ tasks = [p \in Callers |-> <<>>]
    /\ data = [p \in Callers |-> <<>>]
    /\ exc = [p \in Callers |-> ""]
    /\ src = [p \in Callers |-> NoFile]
    /\ res = [p \in Callers |-> NoResult]
    /\ pre = [p \in Callers |-> [target |-> NoFile, tmp |-> NoFile, backup |-> NoFile]]
    /\ fd = [p \in Callers |-> ""]
    /\ held = [p \in Callers |-> <<>>]
    /\ faults = MaxFaults
    /\ issued = 2
    /\ dir = TRUE

SpecShared == InitShared /\ [][NextOps]_vars

(***************************************************************************)
(* cli.py: main and the command handlers                                   *)
(***************************************************************************)
\* the namespace parse_args returns: the command and its options, None for
\* an option that was not given or that the command does not have
CliArgs(command, title, description, priority, due_date, status, sort_by, task_id) ==
    [command |-> command, title |-> title, description |-> description,
     priority |-> priority, due_date |-> due_date, status |-> status,
     sort_by |-> sort_by, task_id |-> task_id]
AddArgs(title, description, priority, due_date) ==
    CliArgs("add", title, description, priority, due_date, None, None, None)
ListCmdArgs(status, priority, sort_by) ==
    CliArgs("list", None, None, priority, None, status, sort_by, None)
IdArgs(command, task_id) == CliArgs(command, None, None, None, None, None, None, task_id)

\* the command lines of the model
CliInputs ==
    {IdArgs(None, None), IdArgs("bogus", None), IdArgs("clear", None),
     AddArgs("A", None, "high", None),
     AddArgs(" Y ", "desc", "low", "2027-12-01"),
     AddArgs("  ", None, "medium", None),
     AddArgs("A", None, "medium", "2020-01-01"),
     ListCmdArgs(None, None, "created_at"),
     ListCmdArgs("active", None, "created_at"),
     ListCmdArgs("completed", None, "due_date"),
     ListCmdArgs(None, "high", "priority"),
     ListCmdArgs("active", "low", "created_at")}
        \cup {IdArgs(c, id) : c \in {"complete", "incomplete", "delete"}, id \in OpsIds}

\* cli.py imports Status and the exceptions from src.task_manager.models and
\* src.task_manager.storage; operations.py imports them from task_manager.models
\* and task_manager.storage.  The two are loaded as different modules, so the
\* classes of cli.py are not the classes operations.py compares with and raises
CliStatus(name) == IF name = "COMPLETED" THEN "src.task_manager.models.Status.COMPLETED"
                   ELSE "src.task_manager.models.Status.ACTIVE"
\* the exceptions the except clauses of cmd_add name
CliCaught == {"src.task_manager.models.ValidationError", "src.task_manager.storage.StorageError"}
\* whether the except clauses of cmd_add catch the exception e that
\* operations.create_task raised
CaughtByAdd(e) == e \in CliCaught

\* the command of caller p ends: r is what the operation behind it did, code
\* the exit status of the process, carried in the note
CliEnd(p, r, code, loaded) == OpsEnd(p, [r EXCEPT !.note = ToString(code)], loaded)

\* cmd_add, and main returning 0 after it; an exception cmd_add does not
\* catch leaves main and ends the process with status 1
cmd_add(p, a) ==
    /\ inst[p]
    /\ BeginMaking(p, "main", <<a>>, "")
    /\ \E r \in {Loaded} :
          IF Rejected(CreateArgs(a.title, a.description, a.priority, a.due_date))
          THEN /\ CliEnd(p, Raised("ValidationError", "invalid", "validate"),
                         IF CaughtByAdd("ValidationError") THEN 0 ELSE 1, <<>>)
               /\ UNCHANGED <<target, tmp, backup, issued>>
          ELSE IF r.status = "error"
          THEN /\ CliEnd(p, r, IF CaughtByAdd(r.exc) THEN 0 ELSE 1, <<>>)
               /\ UNCHANGED <<target, tmp, backup, issued>>
          ELSE /\ UuidsLeft
               /\ issued' = issued + 1
               /\ \E g \in 1..NumGens :
                     LET t == BuildTask(CreateArgs(a.title, a.description, a.priority,
                                                   a.due_date),
                                        NextUuid, Now(g)).task
                     IN  IF HasId(r.val, t.id)
                         THEN /\ CliEnd(p, Raised("StorageError", "already exists", "check"),
                                        IF CaughtByAdd("StorageError") THEN 0 ELSE 1, r.val)
                              /\ UNCHANGED <<target, tmp, backup>>
                         ELSE /\ CliEnd(p, Returned(<<t>>, ""), 0, r.val)
                              /\ SaveDone(AddTask(r.val, t))

\* cmd_list: the strings of the command line go to list_tasks as they are;
\* the value returned is the list of the tasks displayed
cmd_list(p, a) ==
    /\ inst[p]
    /\ Begin(p, "main", <<a>>, "")
    /\ UNCHANGED <<target, tmp, backup>>
    /\ \E r \in {Loaded} :
          IF r.status = "error"
          THEN CliEnd(p, r, 0, <<>>)
          ELSE CliEnd(p, Returned(SortTasks(ApplyFilters(Copies(r.val, 1), a.status,
                                                         a.priority),
                                            a.sort_by), ""), 0, r.val)

\* cmd_complete and cmd_incomplete: update_task_status with the member of
\* cli.py's Status the command names.  update_task_status compares it with
\* the COMPLETED of its own Status, which it never equals, so that
\* mark_incomplete runs for either command; every exception is caught and
\* printed
cmd_status(p, a, name) ==
    /\ inst[p]
    /\ Begin(p, "main", <<a>>, a.task_id)
    /\ \E r \in {Loaded} :
          IF r.status = "error"
          THEN CliEnd(p, r, 0, <<>>) /\ UNCHANGED <<target, tmp, backup>>
          ELSE IF ~HasId(r.val, a.task_id)
          THEN /\ CliEnd(p, Raised("TaskNotFoundError", "not found", "check"), 0, r.val)
               /\ UNCHANGED <<target, tmp, backup>>
          ELSE \E g \in Moments(CliStatus(name)) :
                  LET task == r.val[FirstIndex(r.val, a.task_id)]
                      t2 == IF CliStatus(name) = "Status.COMPLETED"
                            THEN mark_complete(task, Now(g))
                            ELSE mark_incomplete(task)
                  IN  /\ CliEnd(p, Returned(<<t2>>, ""), 0, r.val)
                      /\ SaveDone(UpdateTask(r.val, t2))

\* cmd_delete; every exception is caught and printed
cmd_delete(p, a) ==
    /\ inst[p]
    /\ Begin(p, "main", <<a>>, a.task_id)
    /\ \E r \in {Loaded} :
          IF r.status = "error"
          THEN CliEnd(p, r, 0, <<>>) /\ UNCHANGED <<target, tmp, backup>>
          ELSE IF Len(RemoveTask(r.val, a.task_id)) = Len(r.val)
          THEN /\ CliEnd(p, Raised("TaskNotFoundError", "not found", "check"), 0, r.val)
               /\ UNCHANGED <<target, tmp, backup>>
          ELSE /\ CliEnd(p, Returned(<<>>, ""), 0, r.val)
               /\ SaveDone(RemoveTask(r.val, a.task_id))

\* cmd_clear; every exception is caught and printed
cmd_clear(p, a) ==
    /\ inst[p]
    /\ Begin(p, "main", <<a>>, "")
    /\ \E r \in {Loaded} :
          IF r.status = "error"
          THEN CliEnd(p, r, 0, <<>>) /\ UNCHANGED <<target, tmp, backup>>
          ELSE LET cs == CompletedTasks(r.val)
                   e == RemoveEach(r.val, cs, 1, FALSE)
               IN  /\ IF e.exc /= ""
                      THEN CliEnd(p, Raised(e.exc, "not found", "check"), 0, r.val)
                      ELSE CliEnd(p, Returned(cs, ""), 0, r.val)
                   /\ IF e.saved THEN SaveDone(e.stored)
                      ELSE UNCHANGED <<target, tmp, backup>>

\* main without a command prints the help and returns 1; for a word that is
\* no command parse_args ends the process with status 2
cmd_none(p, a) ==
    /\ inst[p]
    /\ Begin(p, "main", <<a>>, "")
    /\ UNCHANGED <<target, tmp, backup>>
    /\ IF a.command = None
       THEN CliEnd(p, Raised("", "no command", "parse"), 1, <<>>)
       ELSE CliEnd(p, Raised("SystemExit", "invalid choice", "parse"), 2, <<>>)

\* main: parse_args, the dispatch, and the return value
main(p, a) ==
    \/ a.command = "add" /\ cmd_add(p, a)
    \/ a.command = "list" /\ cmd_list(p, a)
    \/ a.command = "complete" /\ cmd_status(p, a, "COMPLETED")
    \/ a.command = "incomplete" /\ cmd_status(p, a, "ACTIVE")
    \/ a.command = "delete" /\ cmd_delete(p, a)
    \/ a.command = "clear" /\ cmd_clear(p, a)
    \/ a.command \notin {"add", "list", "complete", "incomplete", "delete", "clear"}
          /\ cmd_none(p, a)

\* one command line after the other on the module's store
NextCli == \E a \in CliInputs : main("w1", a)

SpecCli == InitOps /\ [][NextCli]_vars

(***************************************************************************)
(* What the operations are meant to leave behind                           *)
(***************************************************************************)
Mutators == {"save", "add", "remove", "update"}
StoreOps == Mutators \cup {"load", "get_all", "get_by_id"}

\* the operation of caller p has returned or raised (it was not killed)
Ended(p) == pc[p] = "idle" /\ res[p].status \in {"ok", "error"}

\* the list the running or last mutator of caller p hands to save
Intended(p) ==
    CASE op[p].name = "save" -> op[p].arg
      [] op[p].name = "add" -> tasks[p] \o op[p].arg
      [] op[p].name = "remove" -> SelectSeq(tasks[p], LAMBDA t : t.id /= op[p].id)
      [] op[p].name = "update" ->
            [i \in 1..Len(tasks[p]) |->
                IF tasks[p][i].id = op[p].id /\ \A j \in 1..(i - 1) : tasks[p][j].id /= op[p].id
                THEN op[p].arg[1] ELSE tasks[p][i]]
      [] OTHER -> <<>>

\* the complete serialization of that list
NewContent(p) == json_dump([i \in 1..Len(Intended(p)) |-> to_dict(Intended(p)[i])])

\* load() of the target as it is now, with no read fault
Stored == load(target, FALSE, 1)

(***************************************************************************)
(* Claims                                                                  *)
(***************************************************************************)
SaveSteps == {"tmp_open", "tmp_write", "rename", "backup_stat", "backup_same", "backup_open",
              "backup_dst", "backup_copy", "backup_rest", "cleanup", "cleanup_unlink"}
BeforeRenameDone == {"tmp_open", "tmp_write", "rename"}

\* C1: when save, called directly or through add, remove or update, fails
\* while opening or writing the temporary file or while renaming it, the call
\* raises StorageError and the target file holds what it held before the call.
C1_SaveFailureLeavesTarget ==
    \A p \in Callers :
        (Ended(p) /\ op[p].name \in Mutators /\ res[p].at \in BeforeRenameDone)
            => (IsSaveError(res[p]) /\ target = pre[p].target)

C1_Witness ==
    /\ Ended("w1") /\ op["w1"].name = "add" /\ res["w1"].at = "rename"
    /\ target = pre["w1"].target /\ target.kind = "json"

\* C2: with a single writer, at every step of a save, and so after a kill at
\* any of them, the target file holds either the complete content from before
\* the save or the complete new content.
C2_KilledSaveIsAtomic ==
    \A p \in Callers :
        (op[p].name \in Mutators
         /\ (pc[p] \in SaveSteps \/ (pc[p] = "idle" /\ res[p].status = "killed")))
            => target \in {pre[p].target, NewContent(p)}

C2_Witness ==
    /\ pc["w1"] = "idle" /\ res["w1"].status = "killed" /\ res["w1"].at = "backup_copy"
    /\ op["w1"].name \in Mutators
    /\ target = NewContent("w1") /\ target /= pre["w1"].target

\* C3: after any store operation returns, successfully or not, the file
\* <name>.tmp does not exist.
C3_NoTmpAfterAnyOperation ==
    \A p \in Callers : (Ended(p) /\ op[p].name \in StoreOps) => ~Exists(tmp)

\* C4 as claimed: between operations, failed ones included, the target file,
\* once it exists, holds a JSON array of task objects.
C4_TargetIsAlwaysJsonArray ==
    (\A p \in Callers : pc[p] = "idle" /\ res[p].status /= "killed")
        => (Exists(target) => target.kind = "json")

\* C5 as claimed: after a successful save(L), load returns a list of the same
\* length whose i-th task equals the i-th task of L in every field.
C5_RoundTrip ==
    \A p \in Callers :
        (Ended(p) /\ op[p].name = "save" /\ res[p].status = "ok")
            => \A g \in 1..NumGens : load(target, FALSE, g) = Returned(op[p].arg, "")

\* the task t as the constructor would leave it: the title stripped, the
\* priority and the status members of their enums
Normalised(t) ==
    [t EXCEPT !.title = Strip(t.title),
              !.priority = IF t.priority \in PriorityEnum THEN t.priority
                           ELSE CHOOSE e \in PriorityEnum : EnumValue(e) = Lower(t.priority),
              !.status = IF t.status \in StatusEnum THEN t.status
                         ELSE CHOOSE e \in StatusEnum : EnumValue(e) = Lower(t.status)]

\* C5 amended: after a successful save(L), load returns a list of the same
\* length and order whose i-th task is the i-th task of L with the title
\* stripped and a string priority or status replaced by the enum member; it
\* equals the i-th task of L in every field when that task is as the
\* constructor leaves it.
C5_RoundTripOfNormalised ==
    \A p \in Callers :
        (Ended(p) /\ op[p].name = "save" /\ res[p].status = "ok")
            => \A g \in 1..NumGens :
                  LET r == load(target, FALSE, g)
                      L == op[p].arg
                  IN  /\ r.status = "ok" /\ Len(r.val) = Len(L)
                      /\ \A i \in 1..Len(L) :
                            /\ r.val[i] = Normalised(L[i])
                            /\ Normalised(L[i]) = L[i] => r.val[i] = L[i]

\* a save of a list whose first task has a padded title and a string priority
\* and whose second is as the constructor left it
C5_Witness ==
    /\ Ended("w1") /\ op["w1"].name = "save" /\ res["w1"].status = "ok"
    /\ op["w1"].arg = <<T4, T1>>
    /\ Normalised(T4) /= T4 /\ Normalised(T1) = T1
    /\ load(target, FALSE, 1) = Returned(<<T2, T1>>, "")

\* C6: when the backup copy of a save fails, save still returns normally and
\* the target file holds the complete new content.
C6_BackupFailureDoesNotFailSave ==
    \A p \in Callers :
        (pc[p] = "idle" /\ res[p].note = "backup failed")
            => (res[p].status = "ok" /\ target = NewContent(p))

C6_Witness ==
    /\ Ended("w1") /\ op["w1"].name = "update" /\ res["w1"].note = "backup failed"
    /\ backup = Truncated

\* C7: after a save that succeeds and whose backup copy succeeds, the backup
\* file equals the target file, which holds the list just saved.
C7_BackupEqualsTarget ==
    \A p \in Callers :
        (Ended(p) /\ res[p].status = "ok" /\ res[p].note = "backup copied")
            => (backup = target /\ target = NewContent(p))

C7_Witness ==
    /\ Ended("w1") /\ op["w1"].name = "remove" /\ res["w1"].note = "backup copied"
    /\ Exists(pre["w1"].backup) /\ backup /= pre["w1"].backup

\* C8: add(task), when a task of the loaded collection already has the id of
\* task, raises the "already exists" StorageError and writes nothing.
C8_AddDuplicateFails ==
    \A p \in Callers :
        (Ended(p) /\ op[p].name = "add"
         /\ \E i \in 1..Len(tasks[p]) : tasks[p][i].id = op[p].id)
            => (IsDuplicateError(res[p]) /\ Files = pre[p])

C8_Witness ==
    /\ Ended("w1") /\ op["w1"].name = "add" /\ IsDuplicateError(res["w1"])
    /\ Len(tasks["w1"]) = 2 /\ tasks["w1"][2].id = op["w1"].id

\* C9: for an id that no task of the loaded collection has, remove, update and
\* get_by_id raise TaskNotFoundError and leave the files as they were.
C9_NotFound ==
    \A p \in Callers :
        (Ended(p) /\ op[p].name \in {"remove", "update", "get_by_id"}
         /\ res[p].at /= "load"
         /\ \A i \in 1..Len(tasks[p]) : tasks[p][i].id /= op[p].id)
            => (IsNotFoundError(res[p]) /\ Files = pre[p])

C9_Witness ==
    /\ Ended("w1") /\ op["w1"].name = "update" /\ IsNotFoundError(res["w1"])
    /\ Len(tasks["w1"]) > 0

\* C10: after a successful add(task) on a loaded collection L, the stored
\* collection is L followed by task: one longer, the earlier tasks unchanged
\* and in the same order.
C10_AddAppends ==
    \A p \in Callers :
        (Ended(p) /\ op[p].name = "add" /\ res[p].status = "ok")
            => Stored = Returned(tasks[p] \o op[p].arg, "")

C10_Witness ==
    /\ Ended("w1") /\ op["w1"].name = "add" /\ res["w1"].status = "ok"
    /\ Len(tasks["w1"]) > 0 /\ Len(Stored.val) = Len(tasks["w1"]) + 1

\* C11: after a successful remove(id) on a loaded collection L, the stored
\* collection is L without every task whose id is id, duplicates included; the
\* other tasks keep their content and their order.
C11_RemoveFiltersAllMatches ==
    \A p \in Callers :
        (Ended(p) /\ op[p].name = "remove" /\ res[p].status = "ok")
            => /\ Stored = Returned(SelectSeq(tasks[p], LAMBDA t : t.id /= op[p].id), "")
               /\ \A i \in 1..Len(Stored.val) : Stored.val[i].id /= op[p].id
               /\ Len(Stored.val) < Len(tasks[p])

C11_Witness ==
    /\ Ended("w1") /\ op["w1"].name = "remove" /\ res["w1"].status = "ok"
    /\ Len(tasks["w1"]) = 2 /\ tasks["w1"][1].id = op["w1"].id
    /\ tasks["w1"][2].id = op["w1"].id /\ Stored = Returned(<<>>, "")

\* C12: after a successful update(task) on a loaded collection L, the stored
\* collection has the length of L, holds task at the position of the first
\* task of L with its id, and every other task of L, later ones with the same
\* id included, where it was.
C12_UpdateReplacesFirstMatch ==
    \A p \in Callers :
        (Ended(p) /\ op[p].name = "update" /\ res[p].status = "ok")
            => /\ Stored.status = "ok"
               /\ Len(Stored.val) = Len(tasks[p])
               /\ \E k \in 1..Len(tasks[p]) :
                     /\ tasks[p][k].id = op[p].id
                     /\ \A j \in 1..(k - 1) : tasks[p][j].id /= op[p].id
                     /\ Stored.val[k] = op[p].arg[1]
                     /\ \A i \in 1..Len(tasks[p]) : i /= k => Stored.val[i] = tasks[p][i]

C12_Witness ==
    /\ Ended("w1") /\ op["w1"].name = "update" /\ res["w1"].status = "ok"
    /\ Len(tasks["w1"]) = 2 /\ tasks["w1"][2].id = op["w1"].id
    /\ Stored.status = "ok" /\ Stored.val[1] /= tasks["w1"][1]
    /\ Stored.val[2] = tasks["w1"][2] /\ Stored.val[2] /= op["w1"].arg[1]

\* C13: when a store has been constructed on a path that held no file, the
\* target file holds the empty array, and a get_all that follows at once and
\* meets no read fault returns the empty list.
C13_FreshStoreIsEmpty ==
    [][\A p \in Callers :
          (Ended(p) /\ op[p].name = "init" /\ res[p].status = "ok" /\ ~Exists(pre[p].target))
              => /\ target = json_dump(<<>>)
                 /\ (op'[p].name = "get_all" /\ faults' = faults)
                        => res'[p] = Returned(<<>>, "")]_vars

C13_Witness ==
    /\ Ended("w1") /\ op["w1"].name = "get_all" /\ res["w1"] = Returned(<<>>, "")
    /\ target = json_dump(<<>>) /\ ~Exists(backup) /\ ~Exists(tmp) /\ faults = 0

\* C14 as claimed: constructing a store on a path whose target file exists
\* raises nothing and leaves the target, the temporary and the backup file as
\* they were, whatever operations ran before; so the new instance loads what
\* the previous one persisted.
C14_ConstructKeepsExistingFiles ==
    \A p \in Callers :
        (Ended(p) /\ op[p].name = "init" /\ Exists(pre[p].target))
            => (res[p].status = "ok" /\ inst[p] /\ Files = pre[p])

\* C14, amended: constructing a store on a path whose target file exists
\* leaves the three files as they were, and it returns unless the mkdir on the
\* directory or the test whether the target exists itself raises an OSError.
C14_ConstructLeavesExistingFiles ==
    \A p \in Callers :
        (Ended(p) /\ op[p].name = "init" /\ Exists(pre[p].target))
            => /\ Files = pre[p]
               /\ \/ res[p].status = "ok" /\ inst[p]
                  \/ /\ res[p].exc = "OSError" /\ res[p].at \in {"init_mkdir", "init_exists"}
                     /\ ~inst[p] /\ faults > 0

C14_Witness ==
    /\ Ended("w1") /\ op["w1"].name = "init" /\ res["w1"].status = "ok"
    /\ target.kind = "json" /\ Len(target.doc) = 2 /\ Exists(backup) /\ Exists(tmp)

\* C19: within save the backup file is touched only after the rename has
\* succeeded: up to the rename and in the except block, and so after a save
\* that failed in opening or writing the temporary file or in the rename, the
\* backup file is what it was when the operation began (absent stays absent).
C19_BackupUntouchedBeforeRename ==
    \A p \in Callers :
        (op[p].name \in Mutators
         /\ \/ pc[p] \in BeforeRenameDone \cup {"cleanup", "cleanup_unlink"}
            \/ pc[p] = "idle" /\ res[p].at \in BeforeRenameDone \cup {"cleanup", "cleanup_unlink"})
            => backup = pre[p].backup

C19_Witness ==
    /\ Ended("w1") /\ op["w1"].name = "add" /\ IsSaveError(res["w1"])
    /\ res["w1"].at = "tmp_write" /\ ~Exists(backup) /\ target.kind = "json"

\* C20 as claimed: the backup copy is taken before the new content is
\* written, so after a successful save that replaces the content of the target
\* by a different one the backup file holds the content from before the save.
C20_BackupHoldsOldContent ==
    \A p \in Callers :
        (Ended(p) /\ op[p].name \in Mutators /\ res[p].status = "ok"
         /\ res[p].note = "backup copied" /\ target /= pre[p].target)
            => backup = pre[p].target

(***************************************************************************)
(* The in-memory list the store is meant to behave like                    *)
(***************************************************************************)
ListHas(M, id) == \E i \in 1..Len(M) : M[i].id = id
ListFirst(M, id) == CHOOSE i \in 1..Len(M) : M[i].id = id /\ \A j \in 1..(i - 1) : M[j].id /= id

\* what the list model answers to a call on the list M: the list afterwards,
\* the kind of the outcome and the tasks returned
ListCall(name, M, arg, id) ==
    CASE name = "add" ->
            IF ListHas(M, id) THEN [list |-> M, kind |-> "duplicate", val |-> <<>>]
            ELSE [list |-> M \o arg, kind |-> "ok", val |-> <<>>]
      [] name = "update" ->
            IF ~ListHas(M, id) THEN [list |-> M, kind |-> "not found", val |-> <<>>]
            ELSE [list |-> [i \in 1..Len(M) |-> IF i = ListFirst(M, id) THEN arg[1] ELSE M[i]],
                  kind |-> "ok", val |-> <<>>]
      [] name = "remove" ->
            IF ~ListHas(M, id) THEN [list |-> M, kind |-> "not found", val |-> <<>>]
            ELSE [list |-> SelectSeq(M, LAMBDA t : t.id /= id), kind |-> "ok", val |-> <<>>]
      [] name = "get_all" -> [list |-> M, kind |-> "ok", val |-> M]
      [] name = "get_by_id" ->
            IF ~ListHas(M, id) THEN [list |-> M, kind |-> "not found", val |-> <<>>]
            ELSE [list |-> M, kind |-> "ok", val |-> <<M[ListFirst(M, id)]>>]

\* the kind of outcome of a store operation
OutcomeKind(r) ==
    IF r.status = "ok" THEN "ok"
    ELSE IF IsNotFoundError(r) THEN "not found"
    ELSE IF IsDuplicateError(r) THEN "duplicate"
    ELSE "other"

ListOps == {"add", "update", "remove", "get_all", "get_by_id"}

\* C18: in a run without I/O faults, every add, update, remove, get_all and
\* get_by_id of a caller ends as the same call on an in-memory list does,
\* started from the list the file held before the call, and leaves in the file
\* the list the model holds afterwards.
C18_RefinesListModel ==
    \A p \in Callers :
        (Ended(p) /\ op[p].name \in ListOps /\ faults = 0)
            => LET M == load(pre[p].target, FALSE, 1)
                   a == ListCall(op[p].name, M.val, op[p].arg, op[p].id)
               IN  /\ M.status = "ok"
                   /\ OutcomeKind(res[p]) = a.kind
                   /\ res[p].val = a.val
                   /\ Stored = Returned(a.list, "")

C18_Witness ==
    /\ Ended("w1") /\ op["w1"].name = "get_by_id" /\ faults = 0
    /\ res["w1"].status = "ok" /\ Len(Stored.val) = 2
    /\ Stored.val[2].id = op["w1"].id /\ res["w1"].val = <<Stored.val[1]>>

\* C15: a load that reads the file (no read fault) raises the "Invalid JSON
\* schema" StorageError when the file holds valid JSON whose top level is not
\* a list, and the "invalid JSON format" StorageError when it holds no valid
\* JSON; in neither case does it return a list.
C15_LoadRejectsForeignContent ==
    \A p \in Callers :
        (Ended(p) /\ op[p].name = "load" /\ res[p].note /= "read fault")
            => /\ pre[p].target.kind = "object"
                     => (IsSchemaError(res[p]) /\ ~IsParseError(res[p]) /\ res[p].val = <<>>)
               /\ pre[p].target.kind \in {"garbage", "truncated"}
                     => (IsParseError(res[p]) /\ ~IsSchemaError(res[p]) /\ res[p].val = <<>>)
               /\ res[p].status = "ok" => pre[p].target.kind = "json"

C15_Witness ==
    /\ Ended("w1") /\ op["w1"].name = "load" /\ IsSchemaError(res["w1"])
    /\ target = NonList /\ target = pre["w1"].target

\* C16: the tasks get_all returns are the caller's own copies: after the
\* caller has changed one of them, the files are as they were, a later get_all
\* returns the stored tasks and a later get_by_id the first stored task with
\* the id, not the changed one.
C16_ReturnedTasksAreCopies ==
    \A p \in Callers :
        (Ended(p) /\ op[p].name \in {"get_all", "get_by_id"} /\ res[p].status = "ok")
            => /\ Files = pre[p]
               /\ Stored.status = "ok"
               /\ op[p].name = "get_all" => res[p].val = Stored.val
               /\ op[p].name = "get_by_id" =>
                     \E k \in 1..Len(Stored.val) :
                        /\ res[p].val = <<Stored.val[k]>>
                        /\ Stored.val[k].id = op[p].id
                        /\ \A j \in 1..(k - 1) : Stored.val[j].id /= op[p].id

C16_Witness ==
    /\ Ended("w1") /\ op["w1"].name = "get_by_id" /\ res["w1"].status = "ok"
    /\ held["w1"] /= <<>> /\ held["w1"][1].id = op["w1"].id
    /\ held["w1"][1].title = "changed" /\ res["w1"].val[1].title /= "changed"
    /\ res["w1"].val[1] = Stored.val[1]

\* C17: two callers whose adds overlap lose an update without the store
\* noticing: an add fails only on its load, on a duplicate id or on an I/O
\* error of its own temporary file, never because the target changed since it
\* loaded; and when both callers have added tasks of different ids to the same
\* loaded list and both adds returned, the target holds the list of one of
\* them, without the task of the other.
C17_LostUpdateUndetected ==
    /\ \A p \in Callers :
          (Ended(p) /\ op[p].name = "add" /\ res[p].status = "error")
              => \/ res[p].at = "load"
                 \/ IsDuplicateError(res[p])
                 \/ IsSaveError(res[p]) /\ res[p].at \in BeforeRenameDone
    /\ \A p, q \in Callers :
          (/\ Ended(p) /\ op[p].name = "add" /\ res[p].status = "ok"
           /\ Ended(q) /\ op[q].name = "add" /\ res[q].status = "ok"
           /\ tasks[p] = tasks[q] /\ op[p].id /= op[q].id)
              => \/ Stored = Returned(tasks[p] \o op[p].arg, "")
                 \/ Stored = Returned(tasks[q] \o op[q].arg, "")

C17_Witness ==
    /\ Ended("w1") /\ op["w1"].name = "add" /\ res["w1"].status = "ok"
    /\ Ended("w2") /\ op["w2"].name = "add" /\ res["w2"].status = "ok"
    /\ tasks["w1"] = tasks["w2"] /\ op["w1"].id /= op["w2"].id
    /\ Stored = Returned(tasks["w2"] \o op["w2"].arg, "")
    /\ \A i \in 1..Len(Stored.val) : Stored.val[i].id /= op["w1"].id
    /\ backup = target

\* C21 as claimed: between operations, after a failed or interrupted backup
\* copy included, the backup file, when it exists, holds the complete content
\* of the target at the end of an earlier successful save, never a part of it.
C21_BackupIsCompleteCopy ==
    (\A p \in Callers : pc[p] = "idle") => (Exists(backup) => backup.kind = "json")

\* the load of file content f cannot succeed: read_text raises, by a fault or
\* because there is no file, or the file holds no JSON, or JSON that is not a
\* list
LoadMustFail(f, readFault) ==
    readFault \/ ~Exists(f) \/ f.kind \in {"object", "garbage", "truncated"}

\* C22: when the load inside get_by_id, add, remove or update fails, by a
\* read that raises, by content that is no JSON or by JSON that is not a list,
\* the operation raises that load error, not TaskNotFoundError and not the
\* "already exists" error, and leaves the three files as they were.  The step
\* is the call: it starts with the caller idle, and it counts a fault exactly
\* when its read_text was made to raise.
C22_LoadErrorSurfaces ==
    [][\A p \in Callers :
          (/\ pc[p] = "idle" /\ op'[p].name \in {"get_by_id", "add", "remove", "update"}
           /\ (op'[p] /= op[p] \/ res'[p] /= res[p] \/ pre'[p] /= pre[p] \/ pc'[p] /= "idle")
           /\ LoadMustFail(target, faults' > faults))
              => /\ pc'[p] = "idle" /\ res'[p].status = "error" /\ res'[p].at = "load"
                 /\ (faults' > faults \/ ~Exists(target)) => IsIOError(res'[p])
                 /\ (faults' = faults /\ target.kind = "object") => IsSchemaError(res'[p])
                 /\ (faults' = faults /\ target.kind \in {"garbage", "truncated"})
                       => IsParseError(res'[p])
                 /\ ~IsNotFoundError(res'[p]) /\ ~IsDuplicateError(res'[p])
                 /\ Files' = Files /\ pre'[p] = Files]_vars

\* a remove whose read_text raised on a file that holds a list of tasks
C22_Witness ==
    /\ Ended("w1") /\ op["w1"].name = "remove" /\ IsIOError(res["w1"])
    /\ res["w1"].note = "read fault" /\ faults > 0
    /\ pre["w1"].target.kind = "json" /\ Files = pre["w1"]

\* C23: on a file whose list has a record without the title key, load,
\* get_all, get_by_id, add, remove and update raise the KeyError of from_dict,
\* not a StorageError, and leave the three files as they were.
C23_MissingTitleRaisesKeyError ==
    \A p \in Callers :
        (Ended(p) /\ op[p].name \in StoreOps \ {"save"} /\ res[p].note /= "read fault"
         /\ pre[p].target.kind = "json"
         /\ \E i \in 1..Len(pre[p].target.doc) : pre[p].target.doc[i].title = Absent)
            => /\ IsMissingFieldError(res[p])
               /\ ~IsIOError(res[p]) /\ ~IsParseError(res[p]) /\ ~IsSchemaError(res[p])
               /\ res[p].val = <<>>
               /\ Files = pre[p]

C23_Witness ==
    /\ Ended("w1") /\ op["w1"].name = "update" /\ IsMissingFieldError(res["w1"])
    /\ target = json_dump(<<DictRaw, DictNoTitle>>) /\ Files = pre["w1"]

\* C24: the store never turns to the backup file: an operation that loads a
\* target holding no list of tasks raises the load error and restores nothing,
\* also when the backup file holds a valid list; and a load of a valid target
\* returns the tasks of the target whether the backup file is absent, cut
\* short or holds another list.
C24_BackupIsNeverRead ==
    \A p \in Callers :
        (Ended(p) /\ op[p].name \in StoreOps \ {"save"} /\ res[p].note /= "read fault")
            => /\ pre[p].target.kind /= "json"
                     => (res[p].status = "error" /\ res[p].at = "load" /\ Files = pre[p])
               /\ (pre[p].target.kind = "json" /\ op[p].name = "load")
                     => \E g \in 1..NumGens :
                           LET r == FromDicts(pre[p].target.doc, g, 1)
                           IN  IF r.exc = "" THEN res[p] = Returned(r.tasks, "")
                               ELSE res[p].status = "error"

C24_Witness ==
    /\ Ended("w1") /\ op["w1"].name = "get_all" /\ IsParseError(res["w1"])
    /\ target = Garbage /\ backup = json_dump(<<DictRaw>>) /\ Files = pre["w1"]

\* what the target held when the last call of caller p began, as load() reads it
StoredBefore(p) == load(pre[p].target, FALSE, 1)

\* C25: after any sequence of create_task, update_task_status, delete_task
\* and clear_completed_tasks calls on the module's store, every stored task
\* has completed_at set if and only if its status is COMPLETED
C25_CompletedAtIffCompleted ==
    /\ Stored.status = "ok"
    /\ \A i \in 1..Len(Stored.val) :
          (Stored.val[i].completed_at /= None) <=> (Stored.val[i].status = "Status.COMPLETED")

\* a completed task was marked active again and lost its timestamp, while
\* another stored task is completed and has one
C25_Witness ==
    /\ Ended("w1") /\ op["w1"].name = "update_task_status"
    /\ op["w1"].arg = <<"Status.ACTIVE">> /\ res["w1"].status = "ok"
    /\ \E i \in 1..Len(StoredBefore("w1").val) :
          /\ StoredBefore("w1").val[i].id = op["w1"].id
          /\ StoredBefore("w1").val[i].status = "Status.COMPLETED"
          /\ Stored.val[i].status = "Status.ACTIVE"
          /\ Stored.val[i].completed_at = None
    /\ \E j \in 1..Len(Stored.val) :
          Stored.val[j].status = "Status.COMPLETED" /\ Stored.val[j].completed_at /= None

\* C26: for every task present before and after an Update or
\* update_task_status call, its stored id and created_at are the same
C26_IdAndCreatedAtNeverChange ==
    (/\ Ended("w1") /\ op["w1"].name \in {"update", "update_task_status"}
     /\ res["w1"].status = "ok"
     /\ StoredBefore("w1").status = "ok" /\ Stored.status = "ok")
        => \A i \in 1..Len(StoredBefore("w1").val), j \in 1..Len(Stored.val) :
              (/\ Stored.val[j].id = StoredBefore("w1").val[i].id
               /\ \A k \in 1..Len(Stored.val) : k /= j => Stored.val[k].id /= Stored.val[j].id
               /\ \A k \in 1..Len(StoredBefore("w1").val) :
                     k /= i => StoredBefore("w1").val[k].id /= Stored.val[j].id)
                  => Stored.val[j].created_at = StoredBefore("w1").val[i].created_at

\* C27: update_task_status(id, COMPLETED) on a task that is completed already
\* leaves the stored record as it was: status COMPLETED, the same completed_at
C27_MarkCompleteTwiceIsIdempotent ==
    (/\ Ended("w1") /\ op["w1"].name = "update_task_status"
     /\ op["w1"].arg = <<"Status.COMPLETED">> /\ res["w1"].status = "ok"
     /\ \E i \in 1..Len(StoredBefore("w1").val) :
           /\ StoredBefore("w1").val[i].id = op["w1"].id
           /\ StoredBefore("w1").val[i].status = "Status.COMPLETED")
        => Stored.val = StoredBefore("w1").val

\* C28: clear_completed_tasks() removes exactly the completed tasks and
\* returns their number: the stored collection afterwards is the previous one
\* restricted to the ACTIVE tasks, in the same order, and the count returned
\* is the number of records removed
C28_ClearRemovesExactlyCompleted ==
    (Ended("w1") /\ op["w1"].name = "clear_completed_tasks" /\ res["w1"].status = "ok")
        => /\ StoredBefore("w1").status = "ok" /\ Stored.status = "ok"
           /\ Stored.val = SelectSeq(StoredBefore("w1").val,
                                     LAMBDA t : t.status = "Status.ACTIVE")
           /\ res["w1"].note = ToString(Len(StoredBefore("w1").val) - Len(Stored.val))

\* the arguments of the last list_tasks call, and whether a task matches them
ListIn == op["w1"].arg[1]
Matches(t) ==
    /\ ListIn.status_filter /= None => t.status = ListIn.status_filter
    /\ ListIn.priority_filter /= None => t.priority = ListIn.priority_filter
ListReturned == Ended("w1") /\ op["w1"].name = "list_tasks" /\ res["w1"].status = "ok"

\* C29: list_tasks returns exactly the stored tasks that match every given
\* filter, each of them once and no others, and leaves the files as they were
C29_ListReturnsExactlyMatching ==
    ListReturned
        => /\ Files = pre["w1"]
           /\ Stored.status = "ok"
           /\ \A i \in 1..Len(res["w1"].val) :
                 /\ Matches(res["w1"].val[i])
                 /\ \E j \in 1..Len(Stored.val) : Stored.val[j] = res["w1"].val[i]
           /\ \A j \in 1..Len(Stored.val) :
                 Matches(Stored.val[j])
                     => Cardinality({i \in 1..Len(res["w1"].val) :
                                        res["w1"].val[i] = Stored.val[j]}) = 1

\* two filters were given; of two stored tasks one matches both and is
\* returned, the other matches only one of them
C29_Witness ==
    /\ ListReturned
    /\ ListIn.status_filter /= None /\ ListIn.priority_filter /= None
    /\ Len(Stored.val) = 2 /\ Len(res["w1"].val) = 1
    /\ \E j \in 1..2 : /\ ~Matches(Stored.val[j])
                       /\ \/ Stored.val[j].status = ListIn.status_filter
                          \/ Stored.val[j].priority = ListIn.priority_filter

\* C30: the list list_tasks returns is ordered by the chosen key: created_at
\* descending; due_date ascending, the tasks without a due date after all
\* those with one; HIGH before MEDIUM before LOW
C30_ListIsOrderedByKey ==
    ListReturned
        => \A i, j \in 1..Len(res["w1"].val) : i < j =>
              LET a == res["w1"].val[i]
                  b == res["w1"].val[j]
              IN  /\ ListIn.sort_by = "created_at"
                        => TimeOrd(a.created_at) >= TimeOrd(b.created_at)
                  /\ ListIn.sort_by = "due_date"
                        => /\ a.due_date = None => b.due_date = None
                           /\ (a.due_date /= None /\ b.due_date /= None)
                                 => DateOrd(a.due_date) <= DateOrd(b.due_date)
                  /\ ListIn.sort_by = "priority"
                        => priority_order(a.priority) <= priority_order(b.priority)

ReadOnlyOps == {"load", "get_all", "get_by_id"}

\* C33: load, get_all and get_by_id are read-only: when one of them has
\* returned or raised, the target, the backup and the temporary file are
\* each what they were when it was called
C33_ReadsLeaveFilesAlone ==
    \A p \in Callers :
        (Ended(p) /\ op[p].name \in ReadOnlyOps) => Files = pre[p]

\* a load failed on a file that is not JSON, next to a backup that is, and
\* neither was touched
C33_Witness ==
    /\ Ended("w1") /\ op["w1"].name = "load" /\ IsParseError(res["w1"])
    /\ target = Garbage /\ Exists(backup) /\ ~Exists(tmp)
    /\ Files = pre["w1"]

\* the records of the file f that have an id have pairwise distinct ids
DistinctIds(f) ==
    f.kind = "json" =>
        \A i, j \in 1..Len(f.doc) :
            (i /= j /\ f.doc[i].id /= Absent) => f.doc[i].id /= f.doc[j].id

\* C35: from a target whose records have pairwise distinct ids, after any
\* sequence of add, remove and update calls of one caller, ended, failed or
\* killed at any step, the records of the target have pairwise distinct ids
C35_IdsStayDistinct == DistinctIds(target)

\* an add was refused for its id while the file holds two records, after an
\* operation of the caller had met a fault
C35_Witness ==
    /\ Ended("w1") /\ op["w1"].name = "add" /\ IsDuplicateError(res["w1"])
    /\ target.kind = "json" /\ Len(target.doc) = 2
    /\ \E i \in 1..2 : target.doc[i].id = op["w1"].id
    /\ faults > 0

\* C36: load is deterministic: a load that succeeded returned the list a load
\* of the same files returns now, equal in every field, for any content load
\* accepts, records without id or created_at included
C36_LoadIsDeterministic ==
    (Ended("w1") /\ op["w1"].name = "load" /\ res["w1"].status = "ok" /\ Files = pre["w1"])
        => res["w1"].val = Stored.val

\* C38: a temporary file left behind by a killed save does not affect the
\* operations that follow: a load that reads the target returns what the
\* target holds and leaves the stale file alone; an add, remove or update
\* that gets to its save fails only by an I/O fault of its own, and when it
\* succeeds the target holds exactly its content and no temporary file remains
C38_StaleTmpIsHarmless ==
    \A p \in Callers :
        (Ended(p) /\ Exists(pre[p].tmp))
            => /\ (op[p].name = "load" /\ res[p].note /= "read fault")
                     => /\ Files = pre[p]
                        /\ \E g \in 1..NumGens : res[p] = load(pre[p].target, FALSE, g)
               /\ (op[p].name \in {"add", "remove", "update"} /\ res[p].at \notin {"load", "check"})
                     => /\ res[p].status = "ok" \/ (IsSaveError(res[p]) /\ faults >= 2)
                        /\ res[p].status = "ok"
                              => (target = NewContent(p) /\ ~Exists(tmp))

\* an add that began next to a stale temporary file has succeeded
C38_Witness ==
    /\ Ended("w1") /\ op["w1"].name = "add" /\ res["w1"].status = "ok"
    /\ Exists(pre["w1"].tmp) /\ ~Exists(tmp)
    /\ target = NewContent("w1") /\ target /= pre["w1"].target

\* C34: when the saves of two callers on the same path overlap, the target
\* holds at every moment a complete serialization, never a cut or mixed
\* content, and a save that gets to its write and meets no I/O fault returns
\* normally
C34_OverlappingSavesAreIsolated ==
    /\ target.kind = "json"
    /\ \A p \in Callers :
          (Ended(p) /\ op[p].name = "add" /\ res[p].at \notin {"load", "check"})
              => res[p].status = "ok"

\* C37: clear_completed_tasks() is all-or-nothing: when it raises, the stored
\* collection is what it was before the call
C37_ClearIsAllOrNothing ==
    (Ended("w1") /\ op["w1"].name = "clear_completed_tasks" /\ res["w1"].status = "error")
        => Stored.val = StoredBefore("w1").val

\* the command line of the last call of main, and whether main has ended
CliArg == op["w1"].arg[1]
CliEnded == Ended("w1") /\ op["w1"].name = "main"

\* C31: when the operation behind a command fails, main ends with a status
\* other than 0; it ends with status 0 only when the operation succeeded
C31_ExitStatusTellsFailure ==
    CliEnded => (res["w1"].note = "0" <=> res["w1"].status = "ok")

\* whether the list command is to select the task t: its status and its
\* priority are the ones named on the command line
Selected(t) ==
    /\ CliArg.status /= None => EnumValue(t.status) = CliArg.status
    /\ CliArg.priority /= None => EnumValue(t.priority) = CliArg.priority

\* C32: the list command with --status S and/or --priority P displays exactly
\* the stored tasks whose status is S and whose priority is P
C32_CliListSelectsByValue ==
    (CliEnded /\ CliArg.command = "list" /\ res["w1"].status = "ok")
        => /\ \A i \in 1..Len(res["w1"].val) : Selected(res["w1"].val[i])
           /\ \A j \in 1..Len(Stored.val) :
                 Selected(Stored.val[j])
                     => \E i \in 1..Len(res["w1"].val) : res["w1"].val[i] = Stored.val[j]

====
